---- MODULE Spec2Model ----
(***************************************************************************)
(* A model of the tool-calling orchestration of backend/ai_generator.py:   *)
(* AIGenerator.generate_response and                                       *)
(* AIGenerator.generate_response_with_sequential_tools, with the LLM       *)
(* client and the tool dispatcher as nondeterministic collaborators.       *)
(*                                                                         *)
(* One behaviour is one call of an entry point ("a run").  A step is the   *)
(* code between two calls to a collaborator: an LLM call with everything   *)
(* the code does with its outcome, or one execute_tool call with           *)
(* everything up to the next collaborator call.                            *)
(*                                                                         *)
(* Six specifications share the variables:                                 *)
(*   Spec         a run of the orchestrator (ai_generator.py);             *)
(*   ToolSpec     calls on one ToolManager and its tools                   *)
(*                (search_tools.py);                                       *)
(*   ExecuteSpec  one execute of a search or outline tool, over every      *)
(*                input of the model;                                      *)
(*   SessionSpec  the conversation history store (session_manager.py);     *)
(*   RunSpec      a run of the orchestrator over a registry whose search   *)
(*                tool stores sources;                                     *)
(*   ConcurrentSpec  two questions answered through one ToolManager.       *)
(***************************************************************************)
EXTENDS Integers, Sequences, FiniteSets, TLC

\* ------------------------------------------------------------------ bounds
\* Longest content list an LLM response carries in the model.
MaxBlocks == 2
\* Number of nested fallback re-entries the interpreter's recursion limit
\* admits before the next nested call raises RecursionError.
RecursionLimit == 2

\* --------------------------------------------------------------- constants
max_rounds == 2

APOLOGY_MSG ==
  "I apologize, but I encountered an issue generating a response. Please try rephrasing your question."
TOOL_ERROR_MSG ==
  "I encountered an error while searching. Please try rephrasing your question."
FINAL_ERROR_MSG ==
  "I gathered some information but encountered an issue generating the final response. Please try rephrasing your question."

\* The static system prompt (its text plays no part in the control flow).
SYSTEM_PROMPT == "SYSTEM_PROMPT"

\* ------------------------------------------------------------------ inputs
\* tools: None, an empty list, or a non-empty list of schemas.
ToolsValues == {"None", "[]", "schemas"}
\* tool_manager: None or a dispatcher object.
ToolManagerValues == {"None", "manager"}
\* conversation_history: None, the empty string, or a non-empty string.
HistoryValues == {"None", "", "User: hi"}
\* The two public entry points.
EntryPoints == {"generate_response", "generate_response_with_sequential_tools"}
\* The stop reasons the LLM reports.
StopReasons == {"tool_use", "end_turn", "max_tokens"}
\* The tool names the LLM asks for.
ToolNames == {"search_course_content"}
\* The single question of the run.
Query == "query"

\* Python truthiness of the three optional arguments.
ToolsTruthy(t) == t = "schemas"
ManagerTruthy(m) == m = "manager"
HistoryTruthy(h) == h \notin {"None", ""}

\* ----------------------------------------------------------- LLM responses
\* The text of the i-th content entry of the response to the k-th LLM call.
\* Texts are opaque to the code; naming them after their origin tells them
\* apart.
TextOf(k, i) == "text " \o ToString(k) \o "." \o ToString(i)
IdOf(k, i) == "toolu " \o ToString(k) \o "." \o ToString(i)

TextBlock(k, i) == [type |-> "text", text |-> TextOf(k, i)]
ToolUseBlock(k, i, n) == [type |-> "tool_use", id |-> IdOf(k, i), name |-> n]

\* The content entries the LLM can put at position i of its k-th response.
\* A tool_use entry names a tool of the request, so a request without tool
\* schemas is answered with text entries only.
BlocksAt(k, i, withTools) ==
  {TextBlock(k, i)} \cup
  (IF withTools THEN {ToolUseBlock(k, i, n) : n \in ToolNames} ELSE {})

\* Every content list of length 0..MaxBlocks.
Contents(k, withTools) ==
  UNION {
    {c \in [1..len -> UNION {BlocksAt(k, i, withTools) : i \in 1..len}] :
       \A i \in 1..len : c[i] \in BlocksAt(k, i, withTools)}
    : len \in 0..MaxBlocks}

\* Every response to the k-th call.  A response that ended its turn carries
\* text only; one that asks for tools or was cut off at max_tokens carries
\* any content list (also none, or no tool_use entry at all).
Responses(k, withTools) ==
  {[stop_reason |-> "end_turn", content |-> c] : c \in Contents(k, FALSE)}
  \cup
  (IF withTools
     THEN {[stop_reason |-> s, content |-> c] :
             s \in StopReasons \ {"end_turn"}, c \in Contents(k, TRUE)}
     ELSE {})

\* ------------------------------------------------------------ tool objects
\* The CourseSearchTool objects: the only tools with a last_sources
\* attribute.
SearchTools == {"search tool 1", "search tool 2"}
\* The CourseOutlineTool objects.
OutlineTools == {"outline tool"}
\* Tool objects whose definition has no "name" key, or an empty name.
NamelessTools == {"tool without name", "tool with empty name"}
ToolObjects == SearchTools \cup OutlineTools \cup NamelessTools

\* tool.get_tool_definition().get("name")
DefinitionName(t) ==
  IF t \in SearchTools THEN "search_course_content"
  ELSE IF t \in OutlineTools THEN "get_course_outline"
  ELSE IF t = "tool without name" THEN "None"
  ELSE ""

\* Python truthiness of a name: neither None nor the empty string.
NameTruthy(n) == n \notin {"None", ""}

\* The names a caller dispatches.
DispatchNames == {"search_course_content", "get_course_outline", "unknown_tool"}

\* The names the tool objects declare.
RegistrableNames == {"search_course_content", "get_course_outline"}

\* No tool object has been registered under a name.
NoRegistration == [last |-> "none", earlier |-> {}]

\* The registrations of a name after tool object t was registered under it.
Registration(r, t) ==
  [last |-> t,
   earlier |-> IF r.last \in {"none", t} THEN r.earlier \ {t}
               ELSE (r.earlier \cup {r.last}) \ {t}]

\* Nothing has been called on the manager yet.
NoOp == [op |-> "none"]

\* ------------------------------------------------------------------- state
VARIABLES
  pc,                    \* position of the run: "idle", "round", "tools",
                         \* "fallback", "final", "single", "done"
  entry,                 \* the entry point the caller used
  tools,                 \* argument tools
  tool_manager,          \* argument tool_manager
  conversation_history,  \* argument conversation_history
  messages,              \* local messages of the innermost loop
  round_num,             \* loop variable of the innermost loop
  response,              \* the last response received
  block_idx,             \* position of the tool loop in response.content
  tool_results,          \* local tool_results of _execute_and_append_tools
  exec_order,            \* call identifiers execute_tool was invoked for
                         \* since the last response, in invocation order
  depth,                 \* number of nested fallback re-entries
  result,                \* what the run gave its caller
  calls,                 \* log of the LLM calls of the innermost frame
  llm_calls,             \* number of LLM calls of the run
  tool_execs,            \* number of execute_tool invocations of the run
  tool_rounds,           \* number of responses of the run for which
                         \* execute_tool was invoked
  fallback_cause         \* what sent the run into its latest fallback

\* The state of backend/search_tools.py: one ToolManager, the tool objects
\* handed to it, and the caller who asks questions through it.
VARIABLES
  manager_tools,         \* ToolManager.tools: the name-to-tool dict, as the
                         \* sequence of its items in insertion order
  last_sources,          \* last_sources of every CourseSearchTool object
  last_op,               \* the last call made on the manager and its outcome
  registrations,         \* for every tool name: the tool object last
                         \* registered under it, and the tool objects
                         \* registered under it before another one was
  fresh,                 \* for every CourseSearchTool object: its
                         \* last_sources were stored by a search executed
                         \* while answering the current question
  reset_kept             \* the caller has called reset_sources since the
                         \* current question began, and registered no tool
                         \* since that call

orchvars == <<pc, entry, tools, tool_manager, conversation_history, messages,
              round_num, response, block_idx, tool_results, exec_order, depth,
              result, calls, llm_calls, tool_execs, tool_rounds,
              fallback_cause>>

regvars == <<manager_tools, last_sources, last_op, registrations, fresh,
             reset_kept>>

\* One call of a tool's execute, taken by itself: what it is called with and
\* what the store answers, and what the call produces.
VARIABLES
  call,                  \* the tool, its keyword arguments and the answers
                         \* of the store
  execution              \* what execute returned and what it left behind

fmtvars == <<call, execution>>

\* The conversation history store.
VARIABLES
  sessions,              \* the session map: for every session created, the
                         \* exchanges held for it, oldest first
  recorded,              \* for every session created, every exchange ever
                         \* recorded for it, oldest first
  session_op             \* the last call made on the store and its outcome

sessvars == <<sessions, recorded, session_op>>

\* The callers that answer questions through one ToolManager at a time.
VARIABLES
  asking                 \* for every caller: the call it makes next, the
                         \* records its search stored, what it read, and
                         \* what happened to it in between

concvars == <<asking>>

vars == <<orchvars, regvars, fmtvars, sessvars, concvars>>

NoResponse == [stop_reason |-> "none", content |-> <<>>]
NoResult == [kind |-> "none", value |-> ""]
Return(v) == [kind |-> "returned", value |-> v]
Raise(e) == [kind |-> "raised", value |-> e]

\* ---------------------------------------------------------------- helpers
\* Variant: the history section is written for every history but None.
SystemContentUnlessNone(h) ==
  IF h # "None"
    THEN <<SYSTEM_PROMPT, "\n\nPrevious conversation:\n", h>>
    ELSE <<SYSTEM_PROMPT>>

\* system_content of both paths.
SystemContent(h) ==
  IF HistoryTruthy(h)
    THEN <<SYSTEM_PROMPT, "\n\nPrevious conversation:\n", h>>
    ELSE <<SYSTEM_PROMPT>>

\* The request _make_api_call builds: tools and tool_choice only for a
\* truthy tools argument.
MakeApiCallParams(msgs, system_content, t) ==
  [messages |-> msgs,
   system |-> system_content,
   tools |-> IF ToolsTruthy(t) THEN t ELSE "absent",
   tool_choice |-> IF ToolsTruthy(t) THEN "auto" ELSE "absent"]

\* The request of the single-call path: never any tools.
SingleCallParams(q, h) ==
  [messages |-> <<[role |-> "user", content |-> q]>>,
   system |-> SystemContent(h),
   tools |-> "absent",
   tool_choice |-> "absent"]

\* content_block.type == "tool_use"
IsToolUseBlock(b) == b.type = "tool_use"

\* A content entry has a text attribute only if it is a text entry.
HasText(b) == b.type = "text"

\* The termination test of the loop (negated): the response asks for tools.
IsToolUse(resp) == resp.stop_reason = "tool_use"

\* Variant: the tool loop stops after its first execute_tool call.
FirstToolUsePositionOnly(content, i) ==
  IF i = 0 THEN {j \in 1..Len(content) : IsToolUseBlock(content[j])} ELSE {}

\* Positions of the tool_use entries of a content list after position i.
ToolUsePositionsAfter(content, i) ==
  {j \in (i + 1)..Len(content) : IsToolUseBlock(content[j])}

\* Variant: the loop over the content list runs from its end.
Max(S) == CHOOSE x \in S : \A y \in S : x >= y

\* The next entry a for loop over positions reaches.
Min(S) == CHOOSE x \in S : \A y \in S : x <= y

\* Variant: a tool result without the identifier of its call.
ToolResultUnlabelled(block, content) ==
  [type |-> "tool_result", tool_use_id |-> "toolu", content |-> content]

\* The entry appended to tool_results for a tool_use entry.
ToolResultFor(block, content) ==
  [type |-> "tool_result", tool_use_id |-> block.id, content |-> content]

\* Variant: the text of the last content entry instead of the first.
ExtractLastText(resp) ==
  IF Len(resp.content) = 0
    THEN Return(APOLOGY_MSG)
    ELSE IF HasText(resp.content[Len(resp.content)])
           THEN Return(resp.content[Len(resp.content)].text)
           ELSE Raise("AttributeError")

\* Variant: no test for an empty content list, so content[0] raises.
ExtractTextUnguarded(resp) ==
  IF Len(resp.content) = 0
    THEN Raise("IndexError")
    ELSE IF HasText(resp.content[1])
           THEN Return(resp.content[1].text)
           ELSE Raise("AttributeError")

\* _extract_text_response, and the same three lines of generate_response.
ExtractTextResponse(resp) ==
  IF Len(resp.content) = 0
    THEN Return(APOLOGY_MSG)
    ELSE IF HasText(resp.content[1])
           THEN Return(resp.content[1].text)
           ELSE Raise("AttributeError")

\* Variant: "or" in place of "and" in the branch.
GenerateResponseTargetEither(t, m) ==
  IF ToolsTruthy(t) \/ ManagerTruthy(m) THEN "round" ELSE "single"

\* The branch at the top of generate_response.
GenerateResponseTarget(t, m) ==
  IF ToolsTruthy(t) /\ ManagerTruthy(m) THEN "round" ELSE "single"

\* The branch at the top of generate_response_with_sequential_tools.
SequentialTarget(t, m) ==
  IF ~ToolsTruthy(t) \/ ~ManagerTruthy(m)
    THEN GenerateResponseTarget(t, m)
    ELSE "round"

\* What the except branch of the loop calls: generate_response with the
\* arguments of the run.
FallbackTarget(t, m) == GenerateResponseTarget(t, m)

\* Variant: the failure of a tool reported with the final call's message.
ToolFailureAsFinalFailure == Return(FINAL_ERROR_MSG)

\* What the loop returns when _execute_and_append_tools returned False.
ToolFailureResult == Return(TOOL_ERROR_MSG)

\* Variant: a failed final call is answered like a failed tool.
FinalCallFailureAsToolFailure == Return(TOOL_ERROR_MSG)

\* Variant: the final call is not wrapped in a try.
FinalCallFailurePropagates == Raise("Exception")

\* What the except branch around the final call returns.
FinalCallFailureResult == Return(FINAL_ERROR_MSG)

\* Variant: the single-call path answers a failed call with the apology.
SingleCallFailureAsApology == Return(APOLOGY_MSG)

\* The single-call path has no try: an exception of the LLM call leaves
\* generate_response.
SingleCallFailureResult == Raise("Exception")

\* Variant: the final call keeps the tool schemas of the rounds.
FinalCallToolsKept == "schemas"

\* The tools argument of the final call after the loop.
FinalCallTools == "None"

\* messages at the top of generate_response_with_sequential_tools.
InitialMessages(q) == <<[role |-> "user", content |-> q]>>

\* Where the for loop goes after the body of round r completed.
AfterRound(r) == IF r + 1 < max_rounds THEN "round" ELSE "final"

\* The log entry of an LLM call.
CallRecord(via, params, outcome, resp) ==
  [via |-> via,
   tools |-> params.tools,
   tool_choice |-> params.tool_choice,
   system |-> params.system,
   nmsgs |-> Len(params.messages),
   outcome |-> outcome,
   first |-> IF outcome = "raised" THEN "n/a"
             ELSE IF Len(resp.content) = 0 THEN "none"
             ELSE resp.content[1].type,
   uses |-> IF outcome = "raised" THEN 0
            ELSE Cardinality({j \in 1..Len(resp.content) :
                                resp.content[j].type = "tool_use"}),
   execs |-> 0,
   tool_raised |-> FALSE]

\* The log with one more execute_tool invocation in its last entry.
LogExecution(log, raised) ==
  [log EXCEPT ![Len(log)] =
     [@ EXCEPT !.execs = @ + 1, !.tool_raised = raised]]

\* --------------------------------------------- the registry behind a run
\* tool_name in self.tools
Registered(reg, name) == \E i \in 1..Len(reg) : reg[i].name = name

\* self.tools[tool_name]
ToolNamed(reg, name) ==
  reg[CHOOSE i \in 1..Len(reg) : reg[i].name = name].tool

\* Variant: a name that is not registered goes to the first tool.
UnknownToolDispatched(reg, name) ==
  IF Registered(reg, name) THEN [found |-> TRUE, tool |-> ToolNamed(reg, name)]
  ELSE IF Len(reg) > 0 THEN [found |-> TRUE, tool |-> reg[1].tool]
  ELSE [found |-> FALSE, value |-> "Tool '" \o name \o "' not found"]

\* The first two lines of execute_tool: the tool the name goes to, or the
\* string returned for a name that is not in the dict.
Dispatch(reg, name) ==
  IF Registered(reg, name)
    THEN [found |-> TRUE, tool |-> ToolNamed(reg, name)]
    ELSE [found |-> FALSE, value |-> "Tool '" \o name \o "' not found"]

\* The registries a tool manager holds during a run: nothing registered, or
\* a search tool under the name the LLM asks for.
RunRegistries ==
  {<<>>, <<[name |-> "search_course_content", tool |-> "search tool 1"]>>}

\* Variant: a name that is not registered raises.
ExecuteToolUnknownRaises(reg, name) ==
  IF ~Dispatch(reg, name).found
    THEN {Raise("KeyError")}
    ELSE {Raise("Exception"), Return("tool result")}

\* tool_manager.execute_tool(name, **input) as the orchestrator sees it: the
\* not-found string for a name that is not registered, else whatever the
\* tool does, an exception or a string.
ExecuteToolOutcomes(reg, name) ==
  IF ~Dispatch(reg, name).found
    THEN {Return(Dispatch(reg, name).value)}
    ELSE {Raise("Exception"), Return("tool result")}

\* The two questions answered at the same time.
Questions == {1, 2}

\* A caller before its first question: reset_sources is its next call.
NotAsking ==
  [pc |-> "reset_sources", produced |-> <<>>, got |-> <<>>,
   disturbed |-> FALSE, foreign |-> FALSE, emptied |-> FALSE]

\* No call of a tool taken by itself, and no outcome of one.
NoCall == [tool |-> "none"]
NoExecution == [kind |-> "none"]

\* ------------------------------------------------------------------ actions
\* The orchestrator and the registry after construction.
Constructed ==
  /\ pc = "idle"
  /\ entry = "none"
  /\ tools = "None"
  /\ tool_manager = "None"
  /\ conversation_history = "None"
  /\ messages = <<>>
  /\ round_num = 0
  /\ response = NoResponse
  /\ block_idx = 0
  /\ tool_results = <<>>
  /\ exec_order = <<>>
  /\ depth = 0
  /\ result = NoResult
  /\ calls = <<>>
  /\ llm_calls = 0
  /\ tool_execs = 0
  /\ tool_rounds = 0
  /\ fallback_cause = "none"
  /\ manager_tools = <<>>
  /\ last_sources = [t \in SearchTools |-> <<>>]
  /\ last_op = NoOp
  /\ registrations = [n \in RegistrableNames |-> NoRegistration]
  /\ fresh = [t \in SearchTools |-> FALSE]
  /\ reset_kept = FALSE
  /\ sessions = <<>>
  /\ recorded = <<>>
  /\ session_op = [op |-> "none"]
  /\ asking = [q \in Questions |-> NotAsking]

Init ==
  /\ Constructed
  /\ call = NoCall
  /\ execution = NoExecution

\* The caller calls one of the two entry points with its arguments.
Enter ==
  /\ pc = "idle"
  /\ \E e \in EntryPoints, t \in ToolsValues, m \in ToolManagerValues,
        h \in HistoryValues :
       /\ entry' = e
       /\ tools' = t
       /\ tool_manager' = m
       /\ conversation_history' = h
       /\ pc' = IF e = "generate_response"
                  THEN GenerateResponseTarget(t, m)
                  ELSE SequentialTarget(t, m)
       /\ manager_tools' \in IF m = "None" THEN {<<>>} ELSE RunRegistries
  /\ messages' = IF pc' = "round" THEN InitialMessages(Query) ELSE <<>>
  /\ round_num' = 0
  /\ UNCHANGED <<response, block_idx, tool_results, exec_order, depth, result,
                 calls, llm_calls, tool_execs, tool_rounds, fallback_cause>>

\* The rest of generate_response: one call without tools.
SingleCall ==
  /\ pc = "single"
  /\ LET k == llm_calls + 1
         params == SingleCallParams(Query, conversation_history)
     IN \/ /\ calls' = Append(calls, CallRecord("single", params, "raised", NoResponse))
           /\ result' = SingleCallFailureResult
           /\ UNCHANGED response
        \/ \E resp \in Responses(k, FALSE) :
             /\ calls' = Append(calls, CallRecord("single", params, "other", resp))
             /\ response' = resp
             /\ result' = ExtractTextResponse(resp)
  /\ pc' = "done"
  /\ llm_calls' = llm_calls + 1
  /\ UNCHANGED <<entry, tools, tool_manager, conversation_history, messages,
                 round_num, block_idx, tool_results, exec_order, depth,
                 tool_execs, tool_rounds, fallback_cause>>

\* One iteration of the loop up to its first execute_tool call: the LLM call
\* with tools, the termination test, and the start of
\* _execute_and_append_tools.
LLMRound ==
  /\ pc = "round"
  /\ LET k == llm_calls + 1
         params == MakeApiCallParams(messages, SystemContent(conversation_history), tools)
     IN \/ \* the call raises: except branch of the loop
           /\ calls' = Append(calls, CallRecord("round", params, "raised", NoResponse))
           /\ pc' = "fallback"
           /\ fallback_cause' = "raised"
           /\ UNCHANGED <<response, messages, round_num, block_idx,
                          tool_results, exec_order, result>>
        \/ \E resp \in Responses(k, TRUE) :
             /\ response' = resp
             /\ IF ~IsToolUse(resp)
                  THEN \* return self._extract_text_response(response)
                       /\ calls' = Append(calls, CallRecord("round", params, "other", resp))
                       /\ IF ExtractTextResponse(resp).kind = "returned"
                            THEN /\ result' = ExtractTextResponse(resp)
                                 /\ pc' = "done"
                            ELSE /\ pc' = "fallback"
                                 /\ UNCHANGED result
                       /\ fallback_cause' =
                            IF ExtractTextResponse(resp).kind = "returned"
                              THEN fallback_cause ELSE "no_text"
                       /\ UNCHANGED <<messages, round_num, block_idx, tool_results,
                                      exec_order>>
                  ELSE \* _execute_and_append_tools
                       /\ calls' = Append(calls, CallRecord("round", params, "tool_use", resp))
                       /\ messages' = Append(messages,
                                        [role |-> "assistant", content |-> resp.content])
                       /\ tool_results' = <<>>
                       /\ exec_order' = <<>>
                       /\ UNCHANGED <<result, fallback_cause>>
                       /\ IF ToolUsePositionsAfter(resp.content, 0) = {}
                            THEN \* no tool_use entry: nothing executed,
                                 \* no tool-result message, returns True
                                 /\ round_num' = round_num + 1
                                 /\ pc' = AfterRound(round_num)
                                 /\ UNCHANGED block_idx
                            ELSE /\ block_idx' = Min(ToolUsePositionsAfter(resp.content, 0))
                                 /\ pc' = "tools"
                                 /\ UNCHANGED round_num
  /\ llm_calls' = llm_calls + 1
  /\ UNCHANGED <<entry, tools, tool_manager, conversation_history, depth,
                 tool_execs, tool_rounds>>

\* One execute_tool call of _execute_and_append_tools and what follows it up
\* to the next collaborator call.
ExecuteTool ==
  /\ pc = "tools"
  /\ LET block == response.content[block_idx]
         rest == ToolUsePositionsAfter(response.content, block_idx)
     IN \E o \in ExecuteToolOutcomes(manager_tools, block.name) :
          IF o.kind = "raised"
            THEN \* execute_tool raises: caught, returns False, the loop
                 \* returns the tool-error string
                 /\ calls' = LogExecution(calls, TRUE)
                 /\ result' = ToolFailureResult
                 /\ pc' = "done"
                 /\ UNCHANGED <<messages, round_num, block_idx, tool_results>>
            ELSE \* execute_tool returns a string
                 /\ calls' = LogExecution(calls, FALSE)
                 /\ UNCHANGED result
                 /\ LET results == Append(tool_results,
                                           ToolResultFor(block, o.value))
                    IN /\ tool_results' = results
                       /\ IF rest # {}
                            THEN /\ block_idx' = Min(rest)
                                 /\ UNCHANGED <<messages, round_num, pc>>
                            ELSE /\ messages' = Append(messages,
                                                  [role |-> "user", content |-> results])
                                 /\ round_num' = round_num + 1
                                 /\ pc' = AfterRound(round_num)
                                 /\ UNCHANGED block_idx
  /\ exec_order' = Append(exec_order, response.content[block_idx].id)
  /\ tool_execs' = tool_execs + 1
  /\ tool_rounds' = IF calls[Len(calls)].execs = 0
                      THEN tool_rounds + 1 ELSE tool_rounds
  /\ UNCHANGED <<entry, tools, tool_manager, conversation_history, response,
                 depth, llm_calls, fallback_cause>>

\* The except branch of the loop: return self.generate_response(query,
\* conversation_history, tools, tool_manager), a nested call.  Past the
\* recursion limit the nested call raises RecursionError, which no frame
\* catches (every frame below is inside its own except branch).
Fallback ==
  /\ pc = "fallback"
  /\ IF depth < RecursionLimit
       THEN /\ depth' = depth + 1
            /\ pc' = FallbackTarget(tools, tool_manager)
            /\ messages' = IF pc' = "round" THEN InitialMessages(Query) ELSE <<>>
            /\ round_num' = 0
            /\ calls' = <<>>
            /\ UNCHANGED result
       ELSE /\ result' = Raise("RecursionError")
            /\ pc' = "done"
            /\ UNCHANGED <<depth, messages, round_num, calls>>
  /\ UNCHANGED <<entry, tools, tool_manager, conversation_history, response,
                 block_idx, tool_results, exec_order, llm_calls, tool_execs,
                 tool_rounds, fallback_cause>>

\* After max_rounds rounds: the final call, inside its own try.
FinalCall ==
  /\ pc = "final"
  /\ LET k == llm_calls + 1
         params == MakeApiCallParams(messages, SystemContent(conversation_history),
                                     FinalCallTools)
     IN \/ /\ calls' = Append(calls, CallRecord("final", params, "raised", NoResponse))
           /\ result' = FinalCallFailureResult
           /\ UNCHANGED response
        \/ \E resp \in Responses(k, ToolsTruthy(FinalCallTools)) :
             /\ calls' = Append(calls, CallRecord("final", params, "other", resp))
             /\ response' = resp
             /\ result' = IF ExtractTextResponse(resp).kind = "returned"
                            THEN ExtractTextResponse(resp)
                            ELSE FinalCallFailureResult
  /\ pc' = "done"
  /\ llm_calls' = llm_calls + 1
  /\ UNCHANGED <<entry, tools, tool_manager, conversation_history, messages,
                 round_num, block_idx, tool_results, exec_order, depth,
                 tool_execs, tool_rounds, fallback_cause>>

\* A run of the orchestrator, with the registry left alone.
Next ==
  \/ Enter /\ UNCHANGED <<last_sources, last_op, registrations, fresh,
                           reset_kept, fmtvars, sessvars, concvars>>
  \/ SingleCall /\ UNCHANGED <<regvars, fmtvars, sessvars, concvars>>
  \/ LLMRound /\ UNCHANGED <<regvars, fmtvars, sessvars, concvars>>
  \/ ExecuteTool /\ UNCHANGED <<regvars, fmtvars, sessvars, concvars>>
  \/ Fallback /\ UNCHANGED <<regvars, fmtvars, sessvars, concvars>>
  \/ FinalCall /\ UNCHANGED <<regvars, fmtvars, sessvars, concvars>>

Spec == Init /\ [][Next]_vars

\* ============================================================ tool registry
\* Most passages a search result holds.
MaxDocs == 1

\* ------------------------------------------------------------- ToolManager
\* tool in self.tools.values()
Holds(reg, t) == \E i \in 1..Len(reg) : reg[i].tool = t

\* Variant: a name already taken keeps its first tool.
SetItemKeepFirst(reg, name, t) ==
  IF Registered(reg, name)
    THEN reg
    ELSE Append(reg, [name |-> name, tool |-> t])

\* self.tools[tool_name] = tool: a dict keeps the place of a key it already
\* holds and replaces its value; a new key goes to the end.
SetItem(reg, name, t) ==
  IF Registered(reg, name)
    THEN [i \in 1..Len(reg) |->
            IF reg[i].name = name THEN [name |-> name, tool |-> t] ELSE reg[i]]
    ELSE Append(reg, [name |-> name, tool |-> t])

\* Variant: register_tool without the test of the name.
RegisterToolUnchecked(reg, t) ==
  [kind |-> "returned", value |-> "None",
   tools |-> SetItem(reg, DefinitionName(t), t)]

\* register_tool: the outcome and self.tools after it.
RegisterTool(reg, t) ==
  IF ~NameTruthy(DefinitionName(t))
    THEN [kind |-> "raised", value |-> "ValueError", tools |-> reg]
    ELSE [kind |-> "returned", value |-> "None",
          tools |-> SetItem(reg, DefinitionName(t), t)]

\* get_tool_definitions: the definition of every value of the dict, in dict
\* order.  Of a definition the model keeps the name.
GetToolDefinitions(reg) ==
  [i \in 1..Len(reg) |-> [name |-> DefinitionName(reg[i].tool)]]

\* hasattr(tool, 'last_sources')
HasLastSources(t) == t \in SearchTools

\* get_last_sources: last_sources of the first tool of the dict that has a
\* non-empty one.
GetLastSources(reg, ls) ==
  LET holders == {i \in 1..Len(reg) :
                    HasLastSources(reg[i].tool) /\ ls[reg[i].tool] # <<>>}
  IN IF holders = {} THEN <<>> ELSE ls[reg[Min(holders)].tool]

\* Variant: reset_sources that clears nothing.
ResetSourcesSkipped(reg, ls) == ls

\* reset_sources: last_sources = [] on every tool of the dict that has the
\* attribute.
ResetSources(reg, ls) ==
  [t \in DOMAIN ls |-> IF Holds(reg, t) THEN <<>> ELSE ls[t]]

\* ------------------------------------------------------------ vector store
\* The keyword arguments of a search call; a keyword left out is None.
SearchKwargs ==
  {[query |-> "q"]}
  \cup {[query |-> "q", course_name |-> c] : c \in {"", "MCP"}}
  \cup {[query |-> "q", lesson_number |-> l] : l \in {0, 1}}
  \cup {[query |-> "q", course_name |-> c, lesson_number |-> l] :
          c \in {"", "MCP"}, l \in {0, 1}}

\* The keyword arguments of an outline call.
OutlineKwargs == {[course_name |-> c] : c \in {"", "MCP"}}

\* The metadata dicts of stored passages: with or without a course_title
\* key.
StoreMetadata ==
  {[course_title |-> "Course A", lesson_number |-> 1], [lesson_number |-> 1]}

\* What the store's lesson catalogue answers for the lesson of Course A:
\* None or a link.
LessonLinks == {"None", "https://example.com/a/1"}

\* The error strings a search result carries.
StoreErrors(kwargs) ==
  {"Database connection failed"} \cup
  (IF "course_name" \in DOMAIN kwargs
     THEN {"No course found matching '" \o kwargs.course_name \o "'"}
     ELSE {})

\* The documents of a result with n passages.
Documents(n) == [i \in 1..n |-> "passage " \o ToString(i)]

\* SearchResults objects without an error: parallel arrays of documents
\* and metadata of one length, none to MaxDocs passages.
FoundResults ==
  UNION {{[documents |-> Documents(n), metadata |-> m, error |-> "None"] :
            m \in [1..n -> StoreMetadata]} : n \in 0..MaxDocs}

\* SearchResults objects with an error, with or without passages.
ErrorResults(kwargs) ==
  {[documents |-> Documents(n),
    metadata |-> [i \in 1..n |-> [course_title |-> "Course A", lesson_number |-> 1]],
    error |-> e] : n \in {0, 1}, e \in StoreErrors(kwargs)}

\* The searches of the model: the keyword arguments of the call, the result
\* the store returns and the lesson link of its catalogue.  The arguments
\* vary where the code reads them (an empty result, a course that is not
\* found), the link where the result has passages.
SearchCalls ==
  {[kwargs |-> k, results |-> r, link |-> "None"] :
     k \in SearchKwargs, r \in {x \in FoundResults : Len(x.documents) = 0}}
  \cup
  UNION {{[kwargs |-> k, results |-> r, link |-> "None"] : r \in ErrorResults(k)} :
           k \in {[query |-> "q"], [query |-> "q", course_name |-> "MCP"]}}
  \cup
  {[kwargs |-> [query |-> "q"], results |-> r, link |-> l] :
     r \in {x \in FoundResults : Len(x.documents) > 0}, l \in LessonLinks}

\* SearchResults.is_empty
IsEmpty(results) == Len(results.documents) = 0

\* ---------------------------------------------------------- CourseSearchTool
RECURSIVE JoinWith(_, _)
\* sep.join(parts)
JoinWith(parts, sep) ==
  IF Len(parts) = 0 THEN ""
  ELSE IF Len(parts) = 1 THEN parts[1]
  ELSE parts[1] \o sep \o JoinWith(Tail(parts), sep)

\* meta.get('course_title', 'unknown')
CourseTitleOf(meta) ==
  IF "course_title" \in DOMAIN meta THEN meta.course_title ELSE "unknown"

\* lesson_num is not None, for lesson_num = meta.get('lesson_number')
HasLessonNumber(meta) == "lesson_number" \in DOMAIN meta

\* Variant: the lesson part is written for a truthy lesson number.
LessonSuffixTruthy(meta) ==
  IF HasLessonNumber(meta) /\ meta.lesson_number # 0
    THEN " - Lesson " \o ToString(meta.lesson_number)
    ELSE ""

\* The " - Lesson N" part of a header and of a source text.
LessonSuffix(meta) ==
  IF HasLessonNumber(meta)
    THEN " - Lesson " \o ToString(meta.lesson_number)
    ELSE ""

\* The number of pairs zip(results.documents, results.metadata) yields.
ZipLen(results) ==
  IF Len(results.documents) <= Len(results.metadata)
    THEN Len(results.documents)
    ELSE Len(results.metadata)

\* Variant: the store is asked for the link of every passage with a lesson
\* number, whatever its course title.
AsksLessonLinkAnyTitle(meta) == HasLessonNumber(meta)

\* lesson_num is not None and course_title != 'unknown': the store is asked
\* for the lesson link of the passage.
AsksLessonLink(meta) ==
  HasLessonNumber(meta) /\ CourseTitleOf(meta) # "unknown"

\* The lesson link of a passage: what the store answers where it is asked,
\* None where it is not.
LessonLinkOf(meta, link) ==
  IF AsksLessonLink(meta)
    THEN link
    ELSE "None"

\* The passages of a result for which store.get_lesson_link is called.
LinkLookups(results) ==
  {i \in 1..ZipLen(results) : AsksLessonLink(results.metadata[i])}

\* source_data of a passage: a dict with "text", and "link" for a truthy
\* lesson link.
SourceData(meta, link) ==
  IF LessonLinkOf(meta, link) \notin {"None", ""}
    THEN [text |-> CourseTitleOf(meta) \o LessonSuffix(meta),
          link |-> LessonLinkOf(meta, link)]
    ELSE [text |-> CourseTitleOf(meta) \o LessonSuffix(meta)]

\* The context header of a passage.
Header(meta) == "[" \o CourseTitleOf(meta) \o LessonSuffix(meta) \o "]"

\* formatted: one entry per pair of the zip, header above document.
Formatted(results) ==
  [i \in 1..ZipLen(results) |->
     Header(results.metadata[i]) \o "\n" \o results.documents[i]]

\* _format_results: the string returned and the sources stored.
FormatResults(results, link) ==
  [value |-> JoinWith(Formatted(results), "\n\n"),
   sources |-> [i \in 1..ZipLen(results) |->
                  SourceData(results.metadata[i], link)]]

\* filter_info of the answer to an empty result: a filter is named when its
\* argument is truthy.
FilterInfo(kwargs) ==
  (IF "course_name" \in DOMAIN kwargs /\ kwargs.course_name # ""
     THEN " in course '" \o kwargs.course_name \o "'" ELSE "")
  \o
  (IF "lesson_number" \in DOMAIN kwargs /\ kwargs.lesson_number # 0
     THEN " in lesson " \o ToString(kwargs.lesson_number) ELSE "")

\* Variant: the error of a result is looked at after its passages.
SearchExecutePassagesFirst(results, kwargs, link, sources) ==
  IF ~IsEmpty(results)
    THEN [value |-> FormatResults(results, link).value,
          sources |-> FormatResults(results, link).sources]
    ELSE IF results.error # "None"
      THEN [value |-> results.error, sources |-> sources]
      ELSE [value |-> "No relevant content found" \o FilterInfo(kwargs) \o ".",
            sources |-> sources]

\* What a search of the store produced, as the caller of the tool sees it.
StoreOutcome(results) ==
  IF results.error # "None" THEN "error"
  ELSE IF IsEmpty(results) THEN "empty"
  ELSE "passages"

\* The source records a search of the model gives rise to: those of its
\* passages when the result has no error, none otherwise.
SearchRecords(c) ==
  IF StoreOutcome(c.results) = "passages"
    THEN FormatResults(c.results, c.link).sources
    ELSE <<>>

\* A search with passages is executed by a tool that holds other records.
ReplacesRecords(c, sources) ==
  /\ StoreOutcome(c.results) = "passages"
  /\ sources # <<>>
  /\ sources # SearchRecords(c)

\* Variant: the records of a search are added to those already held.
SearchExecuteMerging(results, kwargs, link, sources) ==
  IF results.error # "None"
    THEN [value |-> results.error, sources |-> sources]
    ELSE IF IsEmpty(results)
      THEN [value |-> "No relevant content found" \o FilterInfo(kwargs) \o ".",
            sources |-> sources]
      ELSE [value |-> FormatResults(results, link).value,
            sources |-> sources \o FormatResults(results, link).sources]

\* Variant: a search without passages empties last_sources.
SearchExecuteClearing(results, kwargs, link, sources) ==
  IF results.error # "None"
    THEN [value |-> results.error, sources |-> <<>>]
    ELSE IF IsEmpty(results)
      THEN [value |-> "No relevant content found" \o FilterInfo(kwargs) \o ".",
            sources |-> <<>>]
      ELSE [value |-> FormatResults(results, link).value,
            sources |-> FormatResults(results, link).sources]

\* CourseSearchTool.execute after store.search returned: the string returned
\* and self.last_sources afterwards.
SearchExecute(results, kwargs, link, sources) ==
  IF results.error # "None"
    THEN [value |-> results.error, sources |-> sources]
    ELSE IF IsEmpty(results)
      THEN [value |-> "No relevant content found" \o FilterInfo(kwargs) \o ".",
            sources |-> sources]
      ELSE [value |-> FormatResults(results, link).value,
            sources |-> FormatResults(results, link).sources]

\* --------------------------------------------------------- CourseOutlineTool
\* Most lessons a course has.
MaxLessons == 2

\* The lesson dicts of the catalogue.
CatalogLessons ==
  {[lesson_number |-> 1, lesson_title |-> "Intro"],
   [lesson_number |-> 2, lesson_title |-> "Basics",
    lesson_link |-> "https://example.com/a/2"]}

\* The course dicts get_all_courses_metadata returns for Course A: no
\* lessons or MaxLessons lessons in any order, instructor and course link
\* present or not.
CourseData ==
  LET lists == UNION {[1..n -> CatalogLessons] : n \in {0, MaxLessons}}
  IN {[title |-> "Course A", lessons |-> l] : l \in lists}
     \cup {[title |-> "Course A", instructor |-> "Ann",
            course_link |-> "https://example.com/a", lessons |-> <<>>]}

\* x.get('lesson_number', 0), the sort key
LessonKey(lesson) ==
  IF "lesson_number" \in DOMAIN lesson THEN lesson.lesson_number ELSE 0

\* Variant: a lesson is put behind all lessons, whatever its key.
InsertLessonAtEnd(sorted, lesson) == sorted \o <<lesson>>

\* A lesson put into a sorted list behind every lesson whose key is not
\* larger.
InsertLesson(sorted, lesson) ==
  LET before == {i \in 1..Len(sorted) : LessonKey(sorted[i]) <= LessonKey(lesson)}
      k == Cardinality(before)
  IN SubSeq(sorted, 1, k) \o <<lesson>> \o SubSeq(sorted, k + 1, Len(sorted))

RECURSIVE SortedLessons(_)
\* sorted(lessons, key=lambda x: x.get('lesson_number', 0)): stable
SortedLessons(lessons) ==
  IF Len(lessons) = 0 THEN <<>>
  ELSE InsertLesson(SortedLessons(SubSeq(lessons, 1, Len(lessons) - 1)),
                    lessons[Len(lessons)])

\* The line of one lesson.
LessonText(lesson) ==
  (IF "lesson_number" \in DOMAIN lesson
     THEN ToString(lesson.lesson_number) ELSE "?")
  \o ". "
  \o (IF "lesson_title" \in DOMAIN lesson
        THEN lesson.lesson_title ELSE "Unknown Lesson")
  \o (IF "lesson_link" \in DOMAIN lesson /\ lesson.lesson_link # ""
        THEN " - [Video Link](" \o lesson.lesson_link \o ")" ELSE "")

\* course_data.get('lessons', [])
LessonsOf(course_data) ==
  IF "lessons" \in DOMAIN course_data THEN course_data.lessons ELSE <<>>

\* outline_parts
OutlineParts(course_data) ==
  LET lessons == LessonsOf(course_data)
      sorted == SortedLessons(lessons)
  IN   <<"**" \o (IF "title" \in DOMAIN course_data
                    THEN course_data.title ELSE "Unknown Course") \o "**">>
       \o (IF "instructor" \in DOMAIN course_data /\ course_data.instructor # ""
             THEN <<"Instructor: " \o course_data.instructor>> ELSE <<>>)
       \o (IF "course_link" \in DOMAIN course_data /\ course_data.course_link # ""
             THEN <<"Course Link: " \o course_data.course_link>> ELSE <<>>)
       \o (IF Len(lessons) > 0
             THEN <<"\nLessons (" \o ToString(Len(lessons)) \o " total):">>
                  \o [i \in 1..Len(sorted) |-> LessonText(sorted[i])]
             ELSE <<"\nNo lessons found for this course.">>)

\* _format_outline
FormatOutline(course_data) == JoinWith(OutlineParts(course_data), "\n")

\* What the store knows of the course an outline is asked for: no title
\* resolved, a title without metadata, or a title with its course dict.
OutlineLookups ==
  {[course_title |-> "None"], [course_title |-> "Course A"]}
  \cup {[course_title |-> "Course A", course_data |-> d] : d \in CourseData}

\* The outline calls of the model: the course name varies where the code
\* reads it (a course that is not found).
OutlineCalls ==
  {[kwargs |-> k, lookup |-> [course_title |-> "None"]] : k \in OutlineKwargs}
  \cup
  {[kwargs |-> [course_name |-> "MCP"], lookup |-> l] :
     l \in {x \in OutlineLookups : x.course_title # "None"}}

\* The methods of the store CourseOutlineTool.execute calls, in order.
OutlineStoreCalls(lookup) ==
  IF lookup.course_title \in {"None", ""}
    THEN <<"_resolve_course_name">>
    ELSE <<"_resolve_course_name", "get_all_courses_metadata">>

\* Variant: the course dict is looked for before the resolved title is
\* looked at.
OutlineExecuteMetadataFirst(kwargs, lookup) ==
  IF "course_data" \notin DOMAIN lookup
    THEN "Course metadata not found for '" \o lookup.course_title \o "'"
    ELSE IF lookup.course_title \in {"None", ""}
      THEN "No course found matching '" \o kwargs.course_name \o "'"
      ELSE FormatOutline(lookup.course_data)

\* CourseOutlineTool.execute after the calls to the store returned.
OutlineExecute(kwargs, lookup) ==
  IF lookup.course_title \in {"None", ""}
    THEN "No course found matching '" \o kwargs.course_name \o "'"
    ELSE IF "course_data" \notin DOMAIN lookup
      THEN "Course metadata not found for '" \o lookup.course_title \o "'"
      ELSE FormatOutline(lookup.course_data)

\* ------------------------------------------------------------------ actions
\* register_tool(tool)
RegisterToolCall ==
  /\ \E t \in ToolObjects :
       LET r == RegisterTool(manager_tools, t)
       IN /\ manager_tools' = r.tools
          /\ last_op' = [op |-> "register_tool", tool |-> t,
                         kind |-> r.kind, value |-> r.value]
          /\ registrations' =
               IF DefinitionName(t) \in RegistrableNames
                 THEN [registrations EXCEPT ![DefinitionName(t)] =
                         Registration(@, t)]
                 ELSE registrations
  /\ reset_kept' = FALSE
  /\ UNCHANGED <<last_sources, fresh>>

\* get_tool_definitions()
GetToolDefinitionsCall ==
  /\ last_op' = [op |-> "get_tool_definitions", kind |-> "returned",
                 value |-> GetToolDefinitions(manager_tools)]
  /\ UNCHANGED <<manager_tools, last_sources, registrations, fresh,
                 reset_kept>>

\* execute_tool(tool_name, **kwargs), with the execute of the tool it
\* dispatches to.
ExecuteToolCall ==
  /\ \E name \in DispatchNames :
       LET d == Dispatch(manager_tools, name)
       IN IF ~d.found
            THEN /\ last_op' = [op |-> "execute_tool", name |-> name,
                                kind |-> "returned", value |-> d.value,
                                executed |-> "none", store |-> "n/a"]
                 /\ UNCHANGED <<last_sources, fresh>>
          ELSE IF d.tool \in SearchTools
            THEN \/ \* store.search raises: nothing catches it
                    /\ last_op' = [op |-> "execute_tool", name |-> name,
                                   kind |-> "raised", value |-> "Exception",
                                   executed |-> d.tool, store |-> "raised"]
                    /\ UNCHANGED <<last_sources, fresh>>
                 \/ \E c \in SearchCalls :
                      LET r == SearchExecute(c.results, c.kwargs, c.link,
                                             last_sources[d.tool])
                      IN /\ last_op' = [op |-> "execute_tool", name |-> name,
                                        kind |-> "returned", value |-> r.value,
                                        executed |-> d.tool,
                                        store |-> StoreOutcome(c.results),
                                        error |-> c.results.error,
                                        passages |-> Len(c.results.documents),
                                        records |-> SearchRecords(c),
                                        replaced |-> ReplacesRecords(c, last_sources[d.tool])]
                         /\ last_sources' = [last_sources EXCEPT ![d.tool] = r.sources]
                         /\ fresh' = IF StoreOutcome(c.results) = "passages"
                                       THEN [fresh EXCEPT ![d.tool] = TRUE]
                                       ELSE fresh
          ELSE \/ \* a call to the store raises: nothing catches it
                  /\ last_op' = [op |-> "execute_tool", name |-> name,
                                 kind |-> "raised", value |-> "Exception",
                                 executed |-> d.tool, store |-> "raised"]
                  /\ UNCHANGED <<last_sources, fresh>>
               \/ \E c \in OutlineCalls :
                    /\ last_op' = [op |-> "execute_tool", name |-> name,
                                   kind |-> "returned",
                                   value |-> OutlineExecute(c.kwargs, c.lookup),
                                   executed |-> d.tool, store |-> "n/a"]
                    /\ UNCHANGED <<last_sources, fresh>>
  /\ UNCHANGED <<manager_tools, registrations, reset_kept>>

\* get_last_sources()
GetLastSourcesCall ==
  /\ last_op' = [op |-> "get_last_sources", kind |-> "returned",
                 value |-> GetLastSources(manager_tools, last_sources)]
  /\ UNCHANGED <<manager_tools, last_sources, registrations, fresh,
                 reset_kept>>

\* reset_sources()
ResetSourcesCall ==
  /\ last_sources' = ResetSources(manager_tools, last_sources)
  /\ last_op' = [op |-> "reset_sources", kind |-> "returned", value |-> "None"]
  /\ reset_kept' = TRUE
  /\ UNCHANGED <<manager_tools, registrations, fresh>>

\* The caller turns to its next question.
NewQuestion ==
  /\ fresh' = [t \in SearchTools |-> FALSE]
  /\ reset_kept' = FALSE
  /\ last_op' = [op |-> "question"]
  /\ UNCHANGED <<manager_tools, last_sources, registrations>>

\* The calls made on one ToolManager, one at a time, with no run of the
\* orchestrator in progress.
ToolNext ==
  \/ RegisterToolCall /\ UNCHANGED <<orchvars, fmtvars, sessvars, concvars>>
  \/ GetToolDefinitionsCall /\ UNCHANGED <<orchvars, fmtvars, sessvars, concvars>>
  \/ ExecuteToolCall /\ UNCHANGED <<orchvars, fmtvars, sessvars, concvars>>
  \/ GetLastSourcesCall /\ UNCHANGED <<orchvars, fmtvars, sessvars, concvars>>
  \/ ResetSourcesCall /\ UNCHANGED <<orchvars, fmtvars, sessvars, concvars>>
  \/ NewQuestion /\ UNCHANGED <<orchvars, fmtvars, sessvars, concvars>>

ToolSpec == Init /\ [][ToolNext]_vars

\* ============================================ a run over a real registry
\* The searches a tool executed in a run makes: the store finds nothing, or
\* passages of Course A.
RunSearchCalls ==
  {c \in SearchCalls :
     /\ c.kwargs = [query |-> "q"]
     /\ c.link = "None"
     /\ c.results.error = "None"
     /\ \A i \in 1..Len(c.results.metadata) :
          "course_title" \in DOMAIN c.results.metadata[i]}

\* Variant: a tool that raises loses the sources it held.
SourcesClearedOnFailure(reg, ls, name, raised, c) ==
  IF ~Dispatch(reg, name).found \/ Dispatch(reg, name).tool \notin SearchTools
    THEN ls
    ELSE IF raised
      THEN [ls EXCEPT ![Dispatch(reg, name).tool] = <<>>]
      ELSE [ls EXCEPT ![Dispatch(reg, name).tool] =
              SearchExecute(c.results, c.kwargs, c.link, @).sources]

\* last_sources of the tool objects after execute_tool(name, ...): a search
\* tool that returned has stored what its search gave; a name that is not
\* registered and a tool that raised (store.search raises before anything
\* is stored) leave them alone.
SourcesAfterExecution(reg, ls, name, raised, c) ==
  IF ~Dispatch(reg, name).found \/ Dispatch(reg, name).tool \notin SearchTools
    THEN ls
    ELSE IF raised
      THEN ls
      ELSE [ls EXCEPT ![Dispatch(reg, name).tool] =
              SearchExecute(c.results, c.kwargs, c.link, @).sources]

\* The caller calls generate_response without a history.
RunEnter ==
  /\ Enter
  /\ entry' = "generate_response"
  /\ conversation_history' = "None"

\* One execute_tool call of _execute_and_append_tools, with what the tool
\* executed leaves in its last_sources.
RunExecuteTool ==
  /\ ExecuteTool
  /\ \E c \in RunSearchCalls :
       last_sources' =
         SourcesAfterExecution(manager_tools, last_sources,
                               response.content[block_idx].name,
                               calls'[Len(calls')].tool_raised, c)

RunNext ==
  \/ RunEnter /\ UNCHANGED <<last_sources, last_op, registrations, fresh,
                              reset_kept, fmtvars, sessvars, concvars>>
  \/ SingleCall /\ UNCHANGED <<regvars, fmtvars, sessvars, concvars>>
  \/ LLMRound /\ UNCHANGED <<regvars, fmtvars, sessvars, concvars>>
  \/ RunExecuteTool /\ UNCHANGED <<manager_tools, last_op, registrations,
                                    fresh, reset_kept, fmtvars, sessvars, concvars>>
  \/ Fallback /\ UNCHANGED <<regvars, fmtvars, sessvars, concvars>>
  \/ FinalCall /\ UNCHANGED <<regvars, fmtvars, sessvars, concvars>>

RunSpec == Init /\ [][RunNext]_vars

\* ======================================= questions at the same time
\* The searches a question makes: the store finds nothing, or passages.
QuestionSearchCalls ==
  {c \in SearchCalls : c.kwargs = [query |-> "q"] /\ c.results.error = "None"}

\* What a call of one caller that writes last_sources does to the other
\* callers: those between their own reset_sources and get_last_sources have
\* been written under.
Disturbing(q) ==
  [o \in Questions |->
     IF o # q /\ asking[o].pc \in {"execute_tool", "get_last_sources"}
       THEN [asking[o] EXCEPT !.disturbed = TRUE]
       ELSE asking[o]]

\* The tools are registered once, before any question.
StartupRegister ==
  /\ manager_tools = <<>>
  /\ RegisterToolCall
  /\ Registered(manager_tools', "search_course_content")
  /\ UNCHANGED asking

\* A caller begins a question: reset_sources()
QuestionReset(q) ==
  /\ Registered(manager_tools, "search_course_content")
  /\ asking[q].pc = "reset_sources"
  /\ last_sources' = ResetSources(manager_tools, last_sources)
  /\ asking' = [Disturbing(q) EXCEPT
                  ![q] = [@ EXCEPT !.pc = "execute_tool", !.produced = <<>>,
                                   !.got = <<>>, !.disturbed = FALSE]]
  /\ UNCHANGED <<manager_tools, last_op, registrations, fresh, reset_kept>>

\* The run of the question executes the search tool:
\* execute_tool("search_course_content", query=...)
QuestionSearch(q) ==
  /\ asking[q].pc = "execute_tool"
  /\ \E c \in QuestionSearchCalls, raised \in BOOLEAN :
       /\ last_sources' =
            SourcesAfterExecution(manager_tools, last_sources,
                                  "search_course_content", raised, c)
       /\ asking' = [Disturbing(q) EXCEPT
                       ![q] = [@ EXCEPT !.pc = "get_last_sources",
                                        !.produced = IF raised THEN <<>>
                                                     ELSE SearchRecords(c)]]
  /\ UNCHANGED <<manager_tools, last_op, registrations, fresh, reset_kept>>

\* The caller reads the sources of its question: get_last_sources()
QuestionRead(q) ==
  /\ asking[q].pc = "get_last_sources"
  /\ LET value == GetLastSources(manager_tools, last_sources)
     IN asking' =
          [asking EXCEPT
             ![q] = [@ EXCEPT
                       !.pc = "reset_sources",
                       !.got = value,
                       !.foreign = @ \/ (/\ value # <<>>
                                          /\ value # asking[q].produced
                                          /\ \E o \in Questions \ {q} :
                                               value = asking[o].produced),
                       !.emptied = @ \/ (/\ value = <<>>
                                          /\ asking[q].produced # <<>>)]]
  /\ UNCHANGED regvars

ConcurrentNext ==
  \/ StartupRegister /\ UNCHANGED <<orchvars, fmtvars, sessvars>>
  \/ \E q \in Questions : QuestionReset(q) /\ UNCHANGED <<orchvars, fmtvars, sessvars>>
  \/ \E q \in Questions : QuestionSearch(q) /\ UNCHANGED <<orchvars, fmtvars, sessvars>>
  \/ \E q \in Questions : QuestionRead(q) /\ UNCHANGED <<orchvars, fmtvars, sessvars>>

ConcurrentSpec == Init /\ [][ConcurrentNext]_vars

\* ================================================= one execute by itself
\* Most passages the result of a search taken by itself holds.
MaxPassages == 2

\* sub in s
Contains(s, sub) ==
  \E i \in 1..(Len(s) - Len(sub) + 1) : SubSeq(s, i, i + Len(sub) - 1) = sub

\* s.startswith(prefix)
StartsWith(s, prefix) ==
  /\ Len(prefix) <= Len(s)
  /\ SubSeq(s, 1, Len(prefix)) = prefix

\* The metadata dicts of passages: course_title present or not,
\* lesson_number absent, 0 or 1.
PassageMetadata ==
  {[course_title |-> "Course A"], [course_title |-> "Course A", lesson_number |-> 0],
   [course_title |-> "Course A", lesson_number |-> 1],
   [other |-> "x"], [lesson_number |-> 0], [lesson_number |-> 1]}

\* What store.get_lesson_link answers in a call taken by itself: None, an
\* empty string or a link.
ExecuteLinks == LessonLinks \cup {""}

\* SearchResults objects without an error: parallel arrays of one length,
\* none to MaxPassages passages.
PassageResults ==
  UNION {{[documents |-> Documents(n), metadata |-> m, error |-> "None"] :
            m \in [1..n -> PassageMetadata]} : n \in 0..MaxPassages}

\* The calls taken by themselves: searches with every combination of
\* filters where the store finds nothing or reports an error, searches with
\* passages of every metadata, and the outline calls.
ExecuteCalls ==
  {[tool |-> "search", kwargs |-> k, results |-> r, link |-> "None"] :
     k \in SearchKwargs, r \in {x \in PassageResults : Len(x.documents) = 0}}
  \cup
  UNION {{[tool |-> "search", kwargs |-> k, results |-> r, link |-> "None"] :
            r \in ErrorResults(k)} : k \in SearchKwargs}
  \cup
  {[tool |-> "search", kwargs |-> [query |-> "q"], results |-> r, link |-> l] :
     r \in {x \in PassageResults : Len(x.documents) > 0}, l \in ExecuteLinks}
  \cup
  {[tool |-> "outline", kwargs |-> c.kwargs, lookup |-> c.lookup] :
     c \in OutlineCalls}

\* The state before a call taken by itself.
ExecuteInit ==
  /\ Constructed
  /\ call \in ExecuteCalls
  /\ execution = NoExecution

\* CourseSearchTool.execute on a tool object that holds no sources.
SearchToolExecute ==
  /\ call.tool = "search"
  /\ execution = NoExecution
  /\ LET r == SearchExecute(call.results, call.kwargs, call.link, <<>>)
     IN execution' = [kind |-> "returned", value |-> r.value,
                      last_sources |-> r.sources,
                      formatted |-> IF StoreOutcome(call.results) = "passages"
                                      THEN Formatted(call.results) ELSE <<>>,
                      link_lookups |-> IF StoreOutcome(call.results) = "passages"
                                         THEN LinkLookups(call.results) ELSE {}]
  /\ UNCHANGED call

\* CourseOutlineTool.execute
OutlineToolExecute ==
  /\ call.tool = "outline"
  /\ execution = NoExecution
  /\ execution' = [kind |-> "returned",
                   value |-> OutlineExecute(call.kwargs, call.lookup),
                 store_calls |-> OutlineStoreCalls(call.lookup),
                 outline_parts |-> IF "course_data" \in DOMAIN call.lookup
                                     THEN OutlineParts(call.lookup.course_data)
                                     ELSE <<>>,
                 listed |-> IF "course_data" \in DOMAIN call.lookup
                              THEN SortedLessons(LessonsOf(call.lookup.course_data))
                              ELSE <<>>]
  /\ UNCHANGED call

ExecuteNext ==
  \/ SearchToolExecute /\ UNCHANGED <<orchvars, regvars, sessvars, concvars>>
  \/ OutlineToolExecute /\ UNCHANGED <<orchvars, regvars, sessvars, concvars>>

ExecuteSpec == ExecuteInit /\ [][ExecuteNext]_vars

\* ============================================ conversation history store
\* K, the number of exchanges kept per session.
MAX_HISTORY == 2

\* Most sessions created.
MaxSessions == 2

\* Most exchanges recorded for one session.
MaxExchanges == 3

\* The identifier of the n-th session created.
SessionId(n) == "session_" \o ToString(n)

\* The identifiers a caller asks with: those of sessions that may exist, an
\* absent one (None), the empty string and one never handed out.
AskedIds ==
  {SessionId(n) : n \in 1..MaxSessions} \cup {"None", "", "nonexistent_session"}

\* The exchanges a caller records: a question and the answer given to it.
Exchanges ==
  {[user |-> q, assistant |-> "answer to " \o q] : q \in {"first", "second"}}

\* The last k elements of a list, all of it when it is shorter.
LastK(list, k) ==
  IF Len(list) <= k THEN list ELSE SubSeq(list, Len(list) - k + 1, Len(list))

\* Variant: beyond K exchanges the newest is dropped.
AppendBoundedKeepOldest(held, exchange) ==
  IF Len(held) < MAX_HISTORY THEN Append(held, exchange) ELSE held

\* The exchanges held after one more is appended: beyond K the oldest is
\* evicted.
AppendBounded(held, exchange) == LastK(Append(held, exchange), MAX_HISTORY)

\* The history formatted for the prompt: the exchanges in chronological
\* order as alternating "User:" and "Assistant:" lines.
FormatHistory(held) ==
  JoinWith([i \in 1..(2 * Len(held)) |->
              IF i % 2 = 1
                THEN "User: " \o held[(i + 1) \div 2].user
                ELSE "Assistant: " \o held[i \div 2].assistant],
           "\n")

\* Variant: asking for the history of an identifier that has no session
\* creates an empty session under it.
HistoryLookupCreating(map, session_id) ==
  IF session_id \in DOMAIN map
    THEN [held |-> map[session_id], sessions |-> map]
    ELSE [held |-> <<>>, sessions |-> map @@ (session_id :> <<>>)]

\* The exchanges found for an identifier and the session map afterwards: an
\* unknown or absent identifier finds an empty history.
HistoryLookup(map, session_id) ==
  IF session_id \in DOMAIN map
    THEN [held |-> map[session_id], sessions |-> map]
    ELSE [held |-> <<>>, sessions |-> map]

\* create_session(): a new session without exchanges.
CreateSession ==
  /\ Cardinality(DOMAIN sessions) < MaxSessions
  /\ LET id == SessionId(Cardinality(DOMAIN sessions) + 1)
     IN /\ sessions' = sessions @@ (id :> <<>>)
        /\ recorded' = recorded @@ (id :> <<>>)
        /\ session_op' = [op |-> "create_session", kind |-> "returned",
                          session_id |-> id]

\* add_exchange(session_id, user_message, assistant_message) for a session
\* that exists.
AddExchange ==
  \E id \in DOMAIN sessions, e \in Exchanges :
    /\ Len(recorded[id]) < MaxExchanges
    /\ sessions' = [sessions EXCEPT ![id] = AppendBounded(@, e)]
    /\ recorded' = [recorded EXCEPT ![id] = Append(@, e)]
    /\ session_op' = [op |-> "add_exchange", kind |-> "returned",
                      session_id |-> id, exchange |-> e]

\* get_conversation_history(session_id)
GetConversationHistory ==
  \E id \in AskedIds :
    LET r == HistoryLookup(sessions, id)
    IN /\ sessions' = r.sessions
       /\ session_op' = [op |-> "get_conversation_history",
                         kind |-> "returned", session_id |-> id,
                         exchanges |-> r.held,
                         value |-> FormatHistory(r.held)]
       /\ UNCHANGED recorded

SessionNext ==
  \/ CreateSession /\ UNCHANGED <<orchvars, regvars, fmtvars, concvars>>
  \/ AddExchange /\ UNCHANGED <<orchvars, regvars, fmtvars, concvars>>
  \/ GetConversationHistory /\ UNCHANGED <<orchvars, regvars, fmtvars, concvars>>

SessionSpec == Init /\ [][SessionNext]_vars

\* =============================================================== properties
\* The log of the innermost frame is the log of the whole run: no fallback
\* has started a new frame, so round k of the run is calls[k].
WholeRunLogged == llm_calls = Len(calls)

\* The first text of a logged response exists.
StartsWithText(c) == c.outcome # "raised" /\ c.first = "text"

\* The case of C1: the first and the second LLM call of the run were both
\* answered with stop reason tool_use, no tool execution of either round
\* raised, and the tool executions of the second round are over.
C1_TwoToolRounds ==
  /\ WholeRunLogged
  /\ Len(calls) >= 2
  /\ calls[1].outcome = "tool_use" /\ ~calls[1].tool_raised
  /\ calls[2].outcome = "tool_use" /\ ~calls[2].tool_raised
  /\ pc # "tools"

\* C1: after two rounds that both ended in tool use with every tool execution
\* succeeding, the only thing the run does is one more LLM call, the third;
\* that call carries neither tool schemas nor a tool-choice; the run ends
\* with it, and when the third response has a text, that text is the value
\* returned.
C1_ThirdCallToolsFree ==
  C1_TwoToolRounds =>
    /\ llm_calls \in {2, 3}
    /\ llm_calls = 2 => pc = "final"
    /\ llm_calls = 3 =>
         /\ pc = "done"
         /\ calls[3].via = "final"
         /\ calls[3].tools = "absent"
         /\ calls[3].tool_choice = "absent"
         /\ StartsWithText(calls[3]) =>
              /\ response.content[1].text = TextOf(3, 1)
              /\ result = Return(response.content[1].text)

C1_Witness ==
  /\ C1_TwoToolRounds
  /\ pc = "done"
  /\ llm_calls = 3
  /\ tool_execs >= 2
  /\ calls[3].tools = "absent"
  /\ result = Return(TextOf(3, 1))

RECURSIVE SumUses(_)
\* The number of tool_use entries in the logged responses.
SumUses(log) ==
  IF log = <<>> THEN 0 ELSE log[1].uses + SumUses(Tail(log))

\* The case of C3: no LLM call of the run failed, and the run returned the
\* answer of a round whose response asked for no tool (stop reason other
\* than tool_use, no tool_use entry).
C3_ResolvedInLoop ==
  /\ fallback_cause = "none"
  /\ pc = "done"
  /\ calls # <<>>
  /\ calls[Len(calls)].via = "round"
  /\ calls[Len(calls)].outcome = "other"
  /\ calls[Len(calls)].uses = 0

\* C3: such a run used one or two rounds, made as many LLM calls as rounds,
\* and invoked execute_tool as often as its responses hold tool_use entries.
C3_CallsAndExecutionsCounted ==
  C3_ResolvedInLoop =>
    /\ round_num + 1 \in 1..max_rounds
    /\ llm_calls = round_num + 1
    /\ tool_execs = SumUses(calls)

C3_Witness ==
  /\ C3_ResolvedInLoop
  /\ llm_calls = 2
  /\ calls[1].uses = 2
  /\ tool_execs = 2

\* C4: once a tool execution has raised, the run is over, its value is
\* exactly the tool-error string, and the LLM calls made are those up to the
\* round of the failing tool: one for the first round of the loop, two for
\* the second.
C4_ToolFailureEndsRun ==
  (calls # <<>> /\ calls[Len(calls)].tool_raised) =>
    /\ pc = "done"
    /\ result = Return("I encountered an error while searching. Please try rephrasing your question.")
    /\ calls[Len(calls)].via = "round"
    /\ Len(calls) = round_num + 1
    /\ WholeRunLogged => llm_calls = round_num + 1 /\ llm_calls \in {1, 2}

C4_Witness ==
  /\ calls # <<>>
  /\ calls[Len(calls)].tool_raised
  /\ llm_calls = 2
  /\ round_num = 1
  /\ calls[2].execs = 2
  /\ result.value = TOOL_ERROR_MSG

\* C5 (as claimed): in one run, execute_tool is invoked for at most
\* max_rounds = 2 LLM responses, whatever the LLM and the tools do.
C5_AtMostTwoToolRounds == tool_rounds <= max_rounds

\* C6 (as claimed): after an LLM call of the loop raised, the run makes one
\* LLM call of the single-call path: the question alone, the system content,
\* no tool schemas; the run ends with it without executing a tool, returning
\* its text.
C6_FallbackIsSingleCall ==
  (fallback_cause = "raised" /\ depth >= 1 /\ pc # "fallback" /\ calls # <<>>) =>
    /\ calls[1].via = "single"
    /\ calls[1].tools = "absent"
    /\ calls[1].nmsgs = 1
    /\ calls[1].system = SystemContent(conversation_history)
    /\ calls[1].execs = 0
    /\ pc = "done"
    /\ StartsWithText(calls[1]) => result = Return(response.content[1].text)

\* C7 (as claimed): a run makes at most one fallback attempt.
C7_AtMostOneFallback == depth <= 1

\* C8 (as claimed): every finished run returned a string.
C8_AlwaysReturnsString == pc = "done" => result.kind = "returned"

\* The last LLM call of the run gave no text to return: it raised, or its
\* response, not asking for tools, begins with an entry that has no text.
LastCallGaveNoText ==
  \/ calls[Len(calls)].outcome = "raised"
  \/ calls[Len(calls)].outcome = "other" /\ calls[Len(calls)].first = "tool_use"

\* C8 (amended): a finished run has returned a string or raised.  It raised
\* only after an LLM call gave no text: the exception of the one call of the
\* single-call path, or RecursionError once the nested fallbacks reached the
\* recursion limit.  No failure of a tool and no LLM call that gave a text
\* or an empty content makes a run raise.
C8_RaisesOnlyOnLLMFailure ==
  pc = "done" =>
    /\ calls # <<>>
    /\ result.kind \in {"returned", "raised"}
    /\ result.kind = "raised" =>
         /\ LastCallGaveNoText
         /\ \/ /\ calls[Len(calls)].via = "single"
               /\ result = Raise("Exception")
               /\ llm_calls = 1
            \/ /\ calls[Len(calls)].via = "round"
               /\ depth = RecursionLimit
               /\ result = Raise("RecursionError")
    /\ ~LastCallGaveNoText => result.kind = "returned"
    /\ calls[Len(calls)].tool_raised => result.kind = "returned"
    /\ calls[Len(calls)].via = "final" => result.kind = "returned"

C8_Witness ==
  /\ pc = "done"
  /\ result = Raise("RecursionError")
  /\ llm_calls = RecursionLimit + 1
  /\ fallback_cause = "raised"

\* C9: when the LLM call of the single-call path raises, the run ends with
\* that exception raised to its caller, not with a returned string.
C9_SingleCallFailurePropagates ==
  (calls # <<>> /\ calls[1].via = "single" /\ calls[1].outcome = "raised") =>
    /\ pc = "done"
    /\ llm_calls = 1
    /\ result.kind = "raised"
    /\ result.value = "Exception"

C9_Witness ==
  /\ entry = "generate_response"
  /\ tools = "None"
  /\ tool_manager = "None"
  /\ pc = "done"
  /\ calls[1].outcome = "raised"
  /\ result.kind = "raised"

\* The run was started without tool schemas (None or an empty list) or
\* without a dispatcher.
NoToolsSupplied == ~ToolsTruthy(tools) \/ ~ManagerTruthy(tool_manager)

\* C10: from either entry point, a run without tool schemas or without a
\* dispatcher makes exactly one LLM call, which carries no tool schemas,
\* and executes no tool; the value returned for a response is its first
\* text, or the apology string when its content is empty.
C10_SingleCallWithoutTools ==
  (entry # "none" /\ NoToolsSupplied) =>
    /\ pc \in {"single", "done"}
    /\ tool_execs = 0
    /\ depth = 0
    /\ pc = "single" => llm_calls = 0
    /\ pc = "done" =>
         /\ llm_calls = 1
         /\ Len(calls) = 1
         /\ calls[1].tools = "absent"
         /\ calls[1].tool_choice = "absent"
         /\ calls[1].outcome = "other" =>
              result = IF calls[1].first = "none"
                         THEN Return("I apologize, but I encountered an issue generating a response. Please try rephrasing your question.")
                         ELSE Return(TextOf(1, 1))

C10_Witness ==
  /\ entry = "generate_response_with_sequential_tools"
  /\ tools = "schemas"
  /\ tool_manager = "None"
  /\ pc = "done"
  /\ llm_calls = 1
  /\ calls[1].tools = "absent"
  /\ response.content = <<>>
  /\ result = Return(APOLOGY_MSG)

\* The case of C11: the run is over and the LLM call that ended it was
\* answered (by a response that is not a tool-use response in a round, by
\* the final response or by the single-call response) with an empty content
\* list.
C11_EndedByEmptyResponse ==
  /\ pc = "done"
  /\ calls # <<>>
  /\ calls[Len(calls)].outcome = "other"
  /\ calls[Len(calls)].first = "none"
  /\ Len(response.content) = 0

\* C11: whenever the LLM response that ends a run has an empty content list,
\* the run returns the fixed apology string and does not raise.
C11_EmptyContentGivesApology ==
  C11_EndedByEmptyResponse =>
    /\ result.kind = "returned"
    /\ result.value =
         "I apologize, but I encountered an issue generating a response. Please try rephrasing your question."

\* A run that used both tool rounds and whose final, tools-free response has
\* no content entry has returned the apology.
C11_Witness ==
  /\ C11_EndedByEmptyResponse
  /\ calls[Len(calls)].via = "final"
  /\ tool_rounds = max_rounds
  /\ result = Return(APOLOGY_MSG)


\* The call identifiers of the tool calls the last response asks for, in the
\* order of its content list.
RequestedIds ==
  LET uses == SelectSeq(response.content, LAMBDA b : b.type = "tool_use")
  IN [i \in 1..Len(uses) |-> uses[i].id]

\* The tool results the loop has put on the message list for the next LLM
\* call: the content of a trailing user message after the assistant message
\* of the round, none when the round appended no such message.
FedBack ==
  IF Len(messages) >= 2 /\ messages[Len(messages)].role = "user"
    THEN messages[Len(messages)].content
    ELSE <<>>

\* The case of C12: the last LLM call of the frame was answered with stop
\* reason tool_use and the body of its round is over with no tool
\* execution having raised.
C12_RoundSucceeded ==
  /\ pc \in {"round", "final"}
  /\ calls # <<>>
  /\ calls[Len(calls)].outcome = "tool_use"
  /\ ~calls[Len(calls)].tool_raised

\* C12: in every round whose tool executions all succeed, the number of tool
\* results fed back equals the number of tool calls the LLM requested in that
\* round, each tool result carries the call identifier of the tool call it
\* answers, and no call identifier appears in two tool results of the round.
C12_ResultsMatchCalls ==
  C12_RoundSucceeded =>
    /\ Len(FedBack) = Len(RequestedIds)
    /\ Len(FedBack) = calls[Len(calls)].uses
    /\ \A i \in 1..Len(FedBack) :
         /\ FedBack[i].type = "tool_result"
         /\ FedBack[i].tool_use_id = RequestedIds[i]
    /\ \A i, j \in 1..Len(FedBack) :
         i # j => FedBack[i].tool_use_id # FedBack[j].tool_use_id

\* A second round that asked for two tool calls and fed two results back.
C12_Witness ==
  /\ C12_RoundSucceeded
  /\ pc = "final"
  /\ Len(RequestedIds) = 2
  /\ Len(FedBack) = 2
  /\ FedBack[1].tool_use_id # FedBack[2].tool_use_id

\* C13: within one round tool calls are executed one at a time in the order
\* in which the tool-use entries appear in the LLM response: when an
\* execution starts, every earlier execution of the round has returned and
\* its result is recorded, the call executed is the first requested call
\* not yet executed, and the results recorded are those of the calls
\* executed, in the same order.
C13_ExecutedInResponseOrder ==
  [][tool_execs' = tool_execs + 1 =>
       /\ Len(tool_results) = Len(exec_order)
       /\ exec_order' = SubSeq(RequestedIds, 1, Len(exec_order) + 1)
       /\ Len(exec_order') <= Len(RequestedIds)
       /\ result' = result =>
            /\ Len(tool_results') = Len(exec_order')
            /\ \A i \in 1..Len(tool_results') :
                 tool_results'[i].tool_use_id = exec_order'[i]
       /\ result' # result => tool_results' = tool_results]_vars

\* Between executions the calls executed are a prefix of the calls
\* requested and the results recorded are theirs, in order.
C13_ResultsInExecutionOrder ==
  pc = "tools" =>
    /\ exec_order = SubSeq(RequestedIds, 1, Len(exec_order))
    /\ Len(exec_order) < Len(RequestedIds)
    /\ response.content[block_idx].id = RequestedIds[Len(exec_order) + 1]
    /\ [i \in 1..Len(tool_results) |-> tool_results[i].tool_use_id] = exec_order

\* Two tool calls of one round have been executed, the second entry after
\* the first, and both results are recorded in that order.
C13_Witness ==
  /\ Len(exec_order) = 2
  /\ exec_order = RequestedIds
  /\ Len(tool_results) = 2
  /\ tool_results[1].tool_use_id = response.content[1].id
  /\ tool_results[2].tool_use_id = response.content[2].id


\* C14: execute_tool called with a name that is not registered returns
\* exactly "Tool '<name>' not found" for that name, does not raise, executes
\* no tool, and leaves the registry and every tool's last sources unchanged.
C14_UnknownNameNotFound ==
  [][(/\ last_op'.op = "execute_tool"
      /\ \A i \in 1..Len(manager_tools) : manager_tools[i].name # last_op'.name)
     =>
     /\ last_op'.kind = "returned"
     /\ last_op'.value = "Tool '" \o last_op'.name \o "' not found"
     /\ last_op'.name = "unknown_tool" =>
          last_op'.value = "Tool 'unknown_tool' not found"
     /\ last_op'.executed = "none"
     /\ manager_tools' = manager_tools
     /\ last_sources' = last_sources]_vars

\* A name that no tool declares was dispatched on a manager that holds the
\* search tool and its sources, and both are still there.
C14_Witness ==
  /\ last_op.op = "execute_tool"
  /\ last_op.name = "unknown_tool"
  /\ last_op.value = "Tool 'unknown_tool' not found"
  /\ \E i \in 1..Len(manager_tools) :
       /\ manager_tools[i].name = "search_course_content"
       /\ last_sources[manager_tools[i].tool] # <<>>

\* C15: after any sequence of registrations in which two tools declare the
\* same name, the registry holds exactly one entry for that name,
\* get_tool_definitions lists that name once, and execute_tool for that name
\* dispatches to the tool registered last, never to the earlier one.
C15_LastRegistrationWins ==
  \A n \in RegistrableNames :
    registrations[n].last # "none" =>
      /\ Cardinality({i \in 1..Len(manager_tools) : manager_tools[i].name = n}) = 1
      /\ Cardinality({i \in 1..Len(GetToolDefinitions(manager_tools)) :
                        GetToolDefinitions(manager_tools)[i].name = n}) = 1
      /\ \A i \in 1..Len(manager_tools) :
           manager_tools[i].name = n =>
             manager_tools[i].tool = registrations[n].last
      /\ (last_op.op = "get_tool_definitions" =>
            Cardinality({i \in 1..Len(last_op.value) : last_op.value[i].name = n}) = 1)
      /\ (last_op.op = "execute_tool" /\ last_op.name = n =>
            /\ last_op.executed = registrations[n].last
            /\ last_op.executed \notin registrations[n].earlier)

\* Two search tools were registered one after the other and a search was
\* dispatched: it went to the second.
C15_Witness ==
  /\ registrations["search_course_content"].last = "search tool 2"
  /\ registrations["search_course_content"].earlier = {"search tool 1"}
  /\ last_op.op = "execute_tool"
  /\ last_op.name = "search_course_content"
  /\ last_op.executed = "search tool 2"
  /\ Len(manager_tools) = 2

\* C16: register_tool called with a tool whose definition has a missing or
\* empty name raises ValueError and leaves the registry's name-to-tool
\* mapping unchanged.
C16_NamelessToolRejected ==
  [][(last_op'.op = "register_tool" /\ last_op'.tool \in NamelessTools)
     =>
     /\ last_op'.kind = "raised"
     /\ last_op'.value = "ValueError"
     /\ manager_tools' = manager_tools]_vars

\* A tool with an empty name was offered to a manager that holds two tools:
\* ValueError, and the two tools are still the registry.
C16_Witness ==
  /\ last_op.op = "register_tool"
  /\ last_op.tool = "tool with empty name"
  /\ last_op.kind = "raised"
  /\ Len(manager_tools) = 2


\* C17: a retrieval backend failure during a tool dispatch is never raised
\* past the registry: when the vector store's search raises an exception,
\* CourseSearchTool.execute and ToolManager.execute_tool return a descriptive
\* string instead of raising.
C17_StoreFailureNotRaised ==
  (/\ last_op.op = "execute_tool"
   /\ last_op.executed \in SearchTools
   /\ last_op.store = "raised")
  => last_op.kind = "returned"

\* C18: when the vector store's search result carries an error,
\* CourseSearchTool.execute returns exactly that error text, whether or not
\* the result also holds passages, and leaves last_sources unchanged.
C18_ErrorTextReturned ==
  [][(last_op'.op = "execute_tool" /\ last_op'.store = "error")
     =>
     /\ last_op'.kind = "returned"
     /\ last_op'.value = last_op'.error
     /\ last_sources' = last_sources]_vars

\* A search whose result carried both an error and a passage returned the
\* error, and the sources of an earlier search are still stored.
C18_Witness ==
  /\ last_op.op = "execute_tool"
  /\ last_op.store = "error"
  /\ last_op.passages = 1
  /\ last_op.value = "No course found matching 'MCP'"
  /\ last_sources[last_op.executed] # <<>>

\* A dispatch that produces no citations: an unknown name, the outline tool,
\* a search that raised, yielded an error or found no passage.
ProducesNoCitations(op) ==
  op.op = "execute_tool" /\ op.store # "passages"

\* C19: after a search execution that returned at least one passage,
\* get_last_sources returns the source records of that execution, one per
\* passage, and every later dispatch that produces no citations leaves what
\* get_last_sources returns as it was; no dispatch but a search with
\* passages changes it, the other calls that change it being reset_sources
\* and register_tool.
C19_SourcesKeptAcrossDispatches ==
  [][/\ (last_op'.op = "execute_tool" /\ last_op'.store = "passages") =>
          /\ last_op'.passages >= 1
          /\ GetLastSources(manager_tools', last_sources')
               = last_sources'[last_op'.executed]
          /\ Len(GetLastSources(manager_tools', last_sources')) = last_op'.passages
          /\ fresh'[last_op'.executed]
     /\ ProducesNoCitations(last_op') =>
          /\ last_sources' = last_sources
          /\ GetLastSources(manager_tools', last_sources')
               = GetLastSources(manager_tools, last_sources)
     /\ GetLastSources(manager_tools', last_sources')
          # GetLastSources(manager_tools, last_sources) =>
          \/ last_op'.op = "reset_sources"
          \/ last_op'.op = "register_tool"
          \/ last_op'.op = "execute_tool" /\ last_op'.store = "passages"]_vars

\* A search that found nothing was dispatched after one that found a
\* passage, and the sources of the earlier one are what get_last_sources
\* returns.
C19_Witness ==
  /\ last_op.op = "execute_tool"
  /\ last_op.store = "empty"
  /\ GetLastSources(manager_tools, last_sources) # <<>>
  /\ GetLastSources(manager_tools, last_sources) = last_sources[last_op.executed]

\* C20: if the caller calls reset_sources before each question and reads
\* get_last_sources after the answer, with questions handled one at a time,
\* then every source record returned for a question was produced by a search
\* executed while answering that question, and the list is empty when no
\* search of that question returned passages.
C20_SourcesBelongToQuestion ==
  (last_op.op = "get_last_sources" /\ reset_kept) =>
    /\ last_op.value # <<>> =>
         \E i \in 1..Len(manager_tools) :
           /\ manager_tools[i].tool \in SearchTools
           /\ last_sources[manager_tools[i].tool] = last_op.value
           /\ fresh[manager_tools[i].tool]
    /\ (\A t \in SearchTools : ~fresh[t]) => last_op.value = <<>>

\* Sources were read for a question that began with reset_sources: they are
\* those of its own search, while a tool object that was replaced in the
\* registry still holds the records of an earlier question.
C20_Witness ==
  /\ last_op.op = "get_last_sources"
  /\ reset_kept
  /\ last_op.value # <<>>
  /\ \E t \in SearchTools : last_sources[t] # <<>> /\ ~fresh[t]


\* C21: the last-sources slot is overwritten wholesale, not merged: after two
\* searches that each return passages, get_last_sources returns exactly the
\* records of the later search, one per passage of it, and none of the
\* earlier search that the later one did not produce itself.
C21_SourcesOverwritten ==
  [][(/\ last_op'.op = "execute_tool"
      /\ last_op'.store = "passages"
      /\ last_sources[last_op'.executed] # <<>>)
     =>
     /\ GetLastSources(manager_tools', last_sources') = last_op'.records
     /\ Len(GetLastSources(manager_tools', last_sources')) = last_op'.passages
     /\ \A i \in 1..Len(last_sources[last_op'.executed]) :
          LET old == last_sources[last_op'.executed][i]
          IN (\A j \in 1..Len(last_op'.records) : last_op'.records[j] # old)
             => \A j \in 1..Len(GetLastSources(manager_tools', last_sources')) :
                  GetLastSources(manager_tools', last_sources')[j] # old]_vars

\* A second search with a passage was executed by a tool that held the
\* different record of an earlier search: the record of the second is all
\* that get_last_sources returns.
C21_Witness ==
  /\ last_op.op = "execute_tool"
  /\ last_op.store = "passages"
  /\ last_op.replaced
  /\ GetLastSources(manager_tools, last_sources) = last_op.records
  /\ Len(last_op.records) = last_op.passages


\* C22: for every combination of course_name and lesson_number filters
\* passed to CourseSearchTool.execute, when the store returns no error and
\* no passages the result starts with "No relevant content found" and
\* mentions each filter that was supplied: the course name whenever one was
\* given and the lesson number whenever one was given, lesson 0 included.
C22_EveryFilterMentioned ==
  (/\ call.tool = "search"
   /\ execution.kind = "returned"
   /\ StoreOutcome(call.results) = "empty")
  =>
  /\ StartsWith(execution.value, "No relevant content found")
  /\ ("course_name" \in DOMAIN call.kwargs /\ call.kwargs.course_name # "")
       => Contains(execution.value, "'" \o call.kwargs.course_name \o "'")
  /\ "lesson_number" \in DOMAIN call.kwargs
       => Contains(execution.value,
                   "lesson " \o ToString(call.kwargs.lesson_number))


\* C23: CourseOutlineTool.execute returns "No course found matching
\* '<name>'" whenever the given course name cannot be resolved to a title,
\* performs no metadata lookup in that case, and does not raise.
C23_UnresolvedCourseNotFound ==
  (/\ call.tool = "outline"
   /\ execution # NoExecution
   /\ call.lookup.course_title \in {"None", ""})
  =>
  /\ execution.kind = "returned"
  /\ execution.value =
       "No course found matching '" \o call.kwargs.course_name \o "'"
  /\ \A i \in 1..Len(execution.store_calls) :
       execution.store_calls[i] # "get_all_courses_metadata"

\* An outline was asked for a course name the store resolves to no title.
C23_Witness ==
  /\ call.tool = "outline"
  /\ call.kwargs.course_name = "MCP"
  /\ call.lookup.course_title = "None"
  /\ execution.kind = "returned"
  /\ execution.value = "No course found matching 'MCP'"
  /\ execution.store_calls = <<"_resolve_course_name">>


\* The title a passage is shown under: its course_title, "unknown" without
\* one.
C24_Title(meta) ==
  IF "course_title" \in DOMAIN meta THEN meta.course_title ELSE "unknown"

\* A search taken by itself returned passages.
C24_Formatted ==
  /\ call.tool = "search"
  /\ execution.kind = "returned"
  /\ call.results.error = "None"
  /\ Len(call.results.documents) > 0

\* The result is one block per passage in the store's order, joined by blank
\* lines, and last_sources holds one record per passage in the same order
\* whose text is the header of the block without its brackets.
C24_BlocksAndRecords(header(_)) ==
  LET n == Len(call.results.documents)
  IN /\ Len(execution.formatted) = n
     /\ execution.value = JoinWith(execution.formatted, "\n\n")
     /\ Len(execution.last_sources) = n
     /\ \A i \in 1..n :
          /\ execution.formatted[i] =
               header(call.results.metadata[i]) \o "\n" \o call.results.documents[i]
          /\ "[" \o execution.last_sources[i].text \o "]" =
               header(call.results.metadata[i])

\* The header of the claim as stated: a lesson part " - Lesson <N>" for
\* every passage, N being the lesson number of the passage, or the way a
\* missing one is written.
C24_HeaderAlwaysWithLesson(meta) ==
  "[" \o C24_Title(meta) \o " - Lesson "
      \o (IF "lesson_number" \in DOMAIN meta
            THEN ToString(meta.lesson_number) ELSE "None")
      \o "]"

\* The header with a lesson part only for a passage that has a lesson
\* number.
C24_HeaderOf(meta) ==
  "[" \o C24_Title(meta)
      \o (IF "lesson_number" \in DOMAIN meta
            THEN " - Lesson " \o ToString(meta.lesson_number) ELSE "")
      \o "]"

\* C24 as stated: for a search returning n passages the formatted result
\* is n blocks in the store's order joined by blank lines, each a header
\* "[<course title> - Lesson <N>]" followed by the passage text, and
\* last_sources holds n records in the same order whose text is the header
\* without its brackets; a passage without course_title has the title
\* "unknown".
C24_EveryHeaderNamesLesson ==
  C24_Formatted => C24_BlocksAndRecords(C24_HeaderAlwaysWithLesson)

\* C24, amended: as stated, but the header of a passage is "[<course title>
\* - Lesson <N>]" when its metadata has a lesson number N (0 included) and
\* "[<course title>]" when it has none.
C24_BlocksPerPassage ==
  C24_Formatted => C24_BlocksAndRecords(C24_HeaderOf)

\* Two passages were formatted: the first without a course_title and with
\* lesson 0, the second with a title and without a lesson number.
C24_Witness ==
  /\ C24_Formatted
  /\ Len(call.results.documents) = 2
  /\ call.results.metadata[1] = [lesson_number |-> 0]
  /\ call.results.metadata[2] = [course_title |-> "Course A"]
  /\ execution.value =
       "[unknown - Lesson 0]\npassage 1\n\n[Course A]\npassage 2"
  /\ execution.last_sources =
       <<[text |-> "unknown - Lesson 0"], [text |-> "Course A"]>>


\* An outline was formatted for a course the store has metadata of.
C25_Outlined ==
  /\ call.tool = "outline"
  /\ execution.kind = "returned"
  /\ call.lookup.course_title = "Course A"
  /\ "course_data" \in DOMAIN call.lookup

\* How often a lesson dict occurs in a list of lessons.
C25_Count(lessons, x) == Cardinality({i \in 1..Len(lessons) : lessons[i] = x})

\* C25: the outline lists every lesson of the course exactly once in
\* ascending lesson-number order, whatever the order of the lessons in the
\* stored metadata, and for a course with zero lessons it contains the line
\* "No lessons found for this course." instead of a lesson list.
C25_LessonsAscendingOnce ==
  C25_Outlined =>
    LET stored == call.lookup.course_data.lessons
        n == Len(stored)
        parts == execution.outline_parts
        listed == execution.listed
        first == Len(parts) - n
    IN /\ execution.value = JoinWith(parts, "\n")
       /\ n = 0 =>
            /\ parts[Len(parts)] = "\nNo lessons found for this course."
            /\ Contains(execution.value, "\nNo lessons found for this course.")
            /\ ~Contains(execution.value, "Lessons (")
            /\ \A x \in CatalogLessons :
                 ~Contains(execution.value, "\n" \o ToString(x.lesson_number) \o ". ")
       /\ n > 0 =>
            /\ Len(listed) = n
            /\ \A x \in CatalogLessons : C25_Count(listed, x) = C25_Count(stored, x)
            /\ \A i, j \in 1..n :
                 i < j => listed[i].lesson_number <= listed[j].lesson_number
            /\ first >= 1
            /\ parts[first] = "\nLessons (" \o ToString(n) \o " total):"
            /\ \A i \in 1..n :
                 StartsWith(parts[first + i],
                            ToString(listed[i].lesson_number) \o ". "
                              \o listed[i].lesson_title)
            /\ \A i \in 1..first :
                 \A x \in CatalogLessons :
                   ~StartsWith(parts[i], ToString(x.lesson_number) \o ". ")
            /\ ~Contains(execution.value, "No lessons found for this course.")

\* The stored metadata lists lesson 2 before lesson 1; the outline lists
\* lesson 1 before lesson 2.
C25_Witness ==
  /\ C25_Outlined
  /\ Len(call.lookup.course_data.lessons) >= 2
  /\ call.lookup.course_data.lessons[1].lesson_number = 2
  /\ call.lookup.course_data.lessons[2].lesson_number = 1
  /\ Contains(execution.value,
              "\n1. Intro\n2. Basics - [Video Link](https://example.com/a/2)")


\* C26: for every session and every sequence of recorded exchanges, the
\* history returned for the session consists of the most recent K exchanges
\* (all of them when fewer than K were recorded), oldest first; recording an
\* exchange when K are already held evicts the oldest one and no other.
C26_MostRecentKept ==
  [][/\ (/\ session_op'.op = "get_conversation_history"
         /\ session_op'.session_id \in DOMAIN sessions)
        =>
        LET all == recorded[session_op'.session_id]
            got == session_op'.exchanges
            n == Len(all)
        IN /\ Len(got) = IF n < MAX_HISTORY THEN n ELSE MAX_HISTORY
           /\ \A i \in 1..Len(got) : got[i] = all[n - Len(got) + i]
           /\ session_op'.value = FormatHistory(got)
     /\ (/\ session_op'.op = "add_exchange"
         /\ Len(sessions[session_op'.session_id]) = MAX_HISTORY)
        =>
        LET before == sessions[session_op'.session_id]
            after == sessions'[session_op'.session_id]
        IN /\ Len(after) = MAX_HISTORY
           /\ \A i \in 1..(MAX_HISTORY - 1) : after[i] = before[i + 1]
           /\ after[MAX_HISTORY] = session_op'.exchange
           /\ \A id \in DOMAIN sessions \ {session_op'.session_id} :
                sessions'[id] = sessions[id]]_vars

\* More than K exchanges were recorded for a session, the first of them
\* unlike the later ones, and its history was asked for: the later K came
\* back.
C26_Witness ==
  /\ session_op.op = "get_conversation_history"
  /\ session_op.session_id \in DOMAIN sessions
  /\ Len(recorded[session_op.session_id]) = MAX_HISTORY + 1
  /\ recorded[session_op.session_id][1].user = "first"
  /\ recorded[session_op.session_id][2].user = "second"
  /\ recorded[session_op.session_id][3].user = "first"
  /\ session_op.value =
       "User: second\nAssistant: answer to second\nUser: first\nAssistant: answer to first"

\* C27: requesting the conversation history of an unknown or absent (null)
\* session identifier yields an empty history, does not raise, and does not
\* create or change any session.
C27_UnknownSessionEmptyHistory ==
  [][(/\ session_op'.op = "get_conversation_history"
      /\ session_op'.session_id \notin DOMAIN sessions)
     =>
     /\ session_op'.kind = "returned"
     /\ session_op'.exchanges = <<>>
     /\ session_op'.value = ""
     /\ sessions' = sessions
     /\ DOMAIN sessions' = DOMAIN sessions]_vars

\* The history of an absent identifier was asked for while a session with an
\* exchange existed: nothing came back and the session is as it was.
C27_Witness ==
  /\ session_op.op = "get_conversation_history"
  /\ session_op.session_id = "None"
  /\ session_op.exchanges = <<>>
  /\ DOMAIN sessions = {SessionId(1)}
  /\ Len(sessions[SessionId(1)]) = 1


\* C28: every round that ends in tool use extends the running message list
\* by exactly two messages, the assistant message holding the LLM's
\* tool-call content followed by one user message holding the matching tool
\* results, so that the k-th LLM call of a run of the loop receives
\* 1 + 2(k-1) messages that begin with the user's question and alternate
\* user and assistant roles.
C28_TwoMessagesPerToolRound ==
  pc \in {"round", "final"} =>
    /\ Len(messages) = 1 + 2 * Len(calls)
    /\ messages[1] = [role |-> "user", content |-> Query]
    /\ \A i \in 1..Len(messages) :
         messages[i].role = IF i % 2 = 1 THEN "user" ELSE "assistant"
    /\ \A i \in 2..Len(messages) :
         i % 2 = 1 =>
           /\ Len(messages[i].content) > 0
           /\ Len(messages[i].content) =
                Cardinality({j \in 1..Len(messages[i - 1].content) :
                               messages[i - 1].content[j].type = "tool_use"})


\* The tool_use entry about to be executed names a tool that is not
\* registered with the tool manager of the run.
C29_UnregisteredRequested ==
  /\ pc = "tools"
  /\ \A i \in 1..Len(manager_tools) :
       manager_tools[i].name # response.content[block_idx].name

\* C29: when the LLM requests a tool name that is not registered, the
\* orchestrator does not treat it as a tool failure: the "not found" text is
\* recorded as that call's tool result, the run does not return the
\* tool-error string, and the next LLM call is made with that result in its
\* messages.
C29_NotFoundFedBack ==
  [][/\ C29_UnregisteredRequested =>
          LET block == response.content[block_idx]
              recorded_result ==
                [type |-> "tool_result", tool_use_id |-> block.id,
                 content |-> "Tool '" \o block.name \o "' not found"]
          IN /\ tool_results' = Append(tool_results, recorded_result)
             /\ result' = NoResult
             /\ pc' \in {"tools", "round", "final"}
             /\ ~calls'[Len(calls')].tool_raised
             /\ pc' \in {"round", "final"} =>
                  messages' = Append(messages,
                                [role |-> "user", content |-> tool_results'])
     /\ (pc \in {"round", "final"} /\ llm_calls' = llm_calls + 1) =>
          /\ calls'[Len(calls')].nmsgs = Len(messages)
          /\ \A i \in 1..Len(messages) : messages'[i] = messages[i]]_vars

\* A run whose tool manager has nothing registered: the LLM asked for the
\* search tool in round 1, the not-found text went back as the tool result,
\* the second LLM call was made with it and the run returned its text.
C29_Witness ==
  /\ manager_tools = <<>>
  /\ tool_manager = "manager"
  /\ pc = "done"
  /\ result = Return(TextOf(2, 1))
  /\ Len(calls) = 2
  /\ calls[2].nmsgs = 3
  /\ Len(messages) = 3
  /\ messages[3].role = "user"
  /\ messages[3].content[1].content = "Tool 'search_course_content' not found"

\* C30: every LLM call of one run (each round, the final tools-free call,
\* and a fallback call) carries the same system content: the static system
\* prompt followed by the "Previous conversation" section exactly when a
\* non-empty history string was supplied, and the static prompt alone
\* otherwise.
C30_SameSystemContent ==
  \A i \in 1..Len(calls) :
    calls[i].system =
      IF conversation_history \in {"None", ""}
        THEN <<SYSTEM_PROMPT>>
        ELSE <<SYSTEM_PROMPT, "\n\nPrevious conversation:\n",
               conversation_history>>

\* A run with a history that fell back once and then made two round calls
\* and the final call, each with the history section.
C30_Witness ==
  /\ conversation_history = "User: hi"
  /\ depth = 1
  /\ pc = "done"
  /\ Len(calls) = 3
  /\ calls[1].via = "round"
  /\ calls[3].via = "final"
  /\ \A i \in 1..3 :
       calls[i].system =
         <<SYSTEM_PROMPT, "\n\nPrevious conversation:\n", "User: hi">>


\* C31: if the final tools-free LLM call made after two tool rounds raises,
\* the run returns the fixed string "I gathered some information but
\* encountered an issue generating the final response. Please try
\* rephrasing your question.", makes no further LLM call (no fallback), and
\* does not raise.
C31_FinalFailureGivesFixedString ==
  [][/\ (/\ pc = "final"
         /\ llm_calls' = llm_calls + 1
         /\ calls'[Len(calls')].outcome = "raised")
        =>
        /\ round_num = 2
        /\ result' =
             [kind |-> "returned",
              value |-> "I gathered some information but encountered an issue generating the final response. Please try rephrasing your question."]
        /\ pc' = "done"
        /\ depth' = depth
     /\ pc = "done" => (llm_calls' = llm_calls /\ result' = result /\ pc' = "done")]_vars

\* Two rounds executed a tool each, the final call raised, and the run is
\* over with the fixed string.
C31_Witness ==
  /\ pc = "done"
  /\ Len(calls) = 3
  /\ calls[1].execs = 1
  /\ calls[2].execs = 1
  /\ calls[3].via = "final"
  /\ calls[3].outcome = "raised"
  /\ llm_calls = 3
  /\ result = Return(FINAL_ERROR_MSG)


\* C32: when the k-th tool call of a round raises, the tool calls after it
\* in that round are never executed, while the effects of the tool calls
\* before it in that round and in earlier rounds, including the last
\* sources they stored, are kept, so get_last_sources can be non-empty
\* after a run that returned the tool-error string.
C32_FailureKeepsEarlierEffects ==
  [][/\ (/\ pc = "tools"
         /\ tool_execs' = tool_execs + 1
         /\ calls'[Len(calls')].tool_raised)
        =>
        /\ last_sources' = last_sources
        /\ tool_results' = tool_results
        /\ messages' = messages
        /\ pc' = "done"
        /\ result' = Return(TOOL_ERROR_MSG)
        /\ exec_order' = Append(exec_order, response.content[block_idx].id)
        /\ \A j \in 1..Len(response.content) :
             (j > block_idx /\ response.content[j].type = "tool_use")
               => \A i \in 1..Len(exec_order') :
                    exec_order'[i] # response.content[j].id
     /\ pc = "done" =>
          /\ tool_execs' = tool_execs
          /\ exec_order' = exec_order
          /\ last_sources' = last_sources]_vars

\* The first tool call of round 2 raised with a second one still asked for;
\* the run returned the tool-error string, the second was not executed, and
\* get_last_sources gives the record a search of round 1 stored.
C32_Witness ==
  /\ pc = "done"
  /\ result = Return(TOOL_ERROR_MSG)
  /\ Len(calls) = 2
  /\ calls[1].execs >= 1
  /\ calls[2].uses = 2
  /\ calls[2].execs = 1
  /\ calls[2].tool_raised
  /\ exec_order = <<response.content[1].id>>
  /\ GetLastSources(manager_tools, last_sources) =
       <<[text |-> "Course A - Lesson 1"]>>


\* C33: whenever a run with tools returns a value, that value is either the
\* first text of the last LLM response received in the run or one of three
\* fixed strings (the apology string, the tool-error string, the
\* final-call-failure string); the text of an earlier LLM response of the
\* run is never returned.
C33_ReturnsLastTextOrFixedString ==
  (/\ pc = "done"
   /\ tools = "schemas"
   /\ tool_manager = "manager"
   /\ result.kind = "returned")
  =>
  \/ result.value \in {APOLOGY_MSG, TOOL_ERROR_MSG, FINAL_ERROR_MSG}
  \/ /\ calls[Len(calls)].outcome # "raised"
     /\ Len(response.content) > 0
     /\ response.content[1].type = "text"
     /\ result.value = response.content[1].text
     /\ result.value = TextOf(llm_calls, 1)
     /\ \A k \in 1..(llm_calls - 1) :
          \A i \in 1..(MaxBlocks + 1) : result.value # TextOf(k, i)

\* Two rounds used tools, the first response opening with a text; the final
\* response held two texts and the run returned the first of them.
C33_Witness ==
  /\ pc = "done"
  /\ tools = "schemas"
  /\ tool_manager = "manager"
  /\ llm_calls = 3
  /\ Len(calls) = 3
  /\ calls[1].first = "text"
  /\ calls[1].execs = 1
  /\ calls[3].via = "final"
  /\ Len(response.content) = 2
  /\ result = Return(TextOf(3, 1))


\* C34: when two questions are answered concurrently through one shared
\* ToolManager, which has no lock, there is an interleaving of their
\* reset_sources, tool executions and get_last_sources in which the sources
\* read for one question are records produced by the other question's
\* search, or are empty because the other question's reset cleared them.
\* As a property of every step: what a question reads is what its own
\* search stored, what another question's search stored, or nothing, and
\* it is its own whenever no other question wrote in between; C34_Witness
\* is the interleaving.
C34_ReadsOwnUnlessDisturbed ==
  [][\A q \in Questions :
       (asking[q].pc = "get_last_sources" /\ asking'[q].pc = "reset_sources")
       =>
       /\ \/ asking'[q].got = asking[q].produced
          \/ asking'[q].got = <<>>
          \/ \E o \in Questions \ {q} : asking'[q].got = asking[o].produced
       /\ ~asking[q].disturbed => asking'[q].got = asking[q].produced
       /\ asking'[q].got = GetLastSources(manager_tools, last_sources)]_vars

\* One question has read records that the other question's search stored
\* and its own did not, and the other has read nothing although its own
\* search had stored records.
C34_Witness ==
  /\ asking[1].foreign
  /\ asking[2].emptied


\* C35: a source record produced by a search carries a link only if its
\* passage has a lesson number, its course title is known (not 'unknown'),
\* and the store returns a non-empty link for that title and lesson; in
\* every other case the record carries display text only, and the store is
\* not asked for a link when the lesson number is absent or the title is
\* unknown.
C35_LinkOnlyWhereResolvable ==
  (call.tool = "search" /\ execution.kind = "returned"
     /\ call.results.error = "None" /\ Len(call.results.documents) > 0)
  =>
  /\ Len(execution.last_sources) = Len(call.results.metadata)
  /\ \A i \in 1..Len(call.results.metadata) :
       LET meta == call.results.metadata[i]
           record == execution.last_sources[i]
           numbered == "lesson_number" \in DOMAIN meta
           known == "course_title" \in DOMAIN meta /\ meta.course_title # "unknown"
           answered == call.link # "None" /\ call.link # ""
       IN /\ "text" \in DOMAIN record
          /\ DOMAIN record \subseteq {"text", "link"}
          /\ "link" \in DOMAIN record <=> (numbered /\ known /\ answered)
          /\ "link" \in DOMAIN record => record.link = call.link
          /\ i \in execution.link_lookups <=> (numbered /\ known)

\* A search returned a record with a link for lesson 0 of a known course
\* beside a record of a passage without course title, which has a lesson
\* number, carries text only and was not asked for.
C35_Witness ==
  /\ call.tool = "search"
  /\ execution.kind = "returned"
  /\ Len(execution.last_sources) = 2
  /\ call.results.metadata[1] = [course_title |-> "Course A", lesson_number |-> 0]
  /\ "link" \in DOMAIN execution.last_sources[1]
  /\ call.results.metadata[2] = [lesson_number |-> 1]
  /\ DOMAIN execution.last_sources[2] = {"text"}
  /\ execution.link_lookups = {1}


====
